---- MODULE Spec2Model ----
(***************************************************************************)
(* Daily-Expense-Tracker: the validation layer (utils/validation.py), the  *)
(* storage layer (services/database_service.py, file-based database) and   *)
(* the service layer (services/expense_service.py).                        *)
(*                                                                         *)
(* Python strings that the code inspects character by character (amount    *)
(* strings, date strings, categories) are sequences of one-character       *)
(* strings.  A Decimal is a record [num, frac] standing for                *)
(* num * 10^(-frac).  A number stored in SQLite is a Decimal in normal     *)
(* form (no trailing fractional zero), so that record equality is numeric  *)
(* equality.                                                               *)
(***************************************************************************)
EXTENDS Integers, Sequences, FiniteSets, TLC

VARIABLES
    expenses,     \* the expenses table: id -> [date, category, amount, description, created_at]
    categories,   \* the categories table: set of [name, budget_limit, description]
    seq,          \* sqlite_sequence of expenses: the largest id AUTOINCREMENT has handed out
    clock,        \* CURRENT_TIMESTAMP, in whole seconds
    last,         \* the last call: [op, ret, exc]
    vin,          \* input string of the validation run
    vout,         \* result of the validation run
    pc,           \* where the command-line application is: the menu prompt or a menu action
    conn,         \* the connections of the DatabaseService object
    schema        \* who created the expenses table: "absent", "service" or "config"

vars == <<expenses, categories, seq, clock, last, vin, vout, pc, conn, schema>>

-----------------------------------------------------------------------------
(* Bounds *)

MaxId == 2
MaxClock == 1
MaxLen == 4

-----------------------------------------------------------------------------
(* Characters and strings *)

Digits == {"0", "1", "2", "3", "4", "5", "6", "7", "8", "9"}

DigitVal(c) ==
    CASE c = "0" -> 0 [] c = "1" -> 1 [] c = "2" -> 2 [] c = "3" -> 3 [] c = "4" -> 4
      [] c = "5" -> 5 [] c = "6" -> 6 [] c = "7" -> 7 [] c = "8" -> 8 [] c = "9" -> 9

DigitChar(n) ==
    CASE n = 0 -> "0" [] n = 1 -> "1" [] n = 2 -> "2" [] n = 3 -> "3" [] n = 4 -> "4"
      [] n = 5 -> "5" [] n = 6 -> "6" [] n = 7 -> "7" [] n = 8 -> "8" [] n = 9 -> "9"

IsDigit(c) == c \in Digits

AllDigits(s) == \A i \in 1..Len(s) : IsDigit(s[i])

\* str.count(c)
Count(s, c) == Cardinality({i \in 1..Len(s) : s[i] = c})

\* int(s[1..n]) for a string of digits (0 for n = 0)
RECURSIVE DigitsToIntUpTo(_, _)
DigitsToIntUpTo(s, n) ==
    IF n = 0 THEN 0 ELSE 10 * DigitsToIntUpTo(s, n - 1) + DigitVal(s[n])

\* int(s) for a string of digits: leading zeros add nothing
DigitsToInt(s) ==
    LET nz == {i \in 1..Len(s) : s[i] /= "0"} IN
    IF nz = {} THEN 0
    ELSE LET k == CHOOSE i \in nz : \A j \in nz : i <= j
         IN  DigitsToIntUpTo(SubSeq(s, k, Len(s)), Len(s) - k + 1)

\* str(n) for n >= 0
RECURSIVE IntToStr(_)
IntToStr(n) ==
    IF n < 10 THEN <<DigitChar(n)>>
    ELSE Append(IntToStr(n \div 10), DigitChar(n % 10))

\* f"{n:02d}" and f"{n:04d}" for n >= 0
Pad2(n) == IF n < 10 THEN <<"0">> \o IntToStr(n) ELSE IntToStr(n)
Pad4(n) ==
    IF n < 10 THEN <<"0", "0", "0">> \o IntToStr(n)
    ELSE IF n < 100 THEN <<"0", "0">> \o IntToStr(n)
    ELSE IF n < 1000 THEN <<"0">> \o IntToStr(n)
    ELSE IntToStr(n)

RECURSIVE Pow10(_)
Pow10(k) == IF k = 0 THEN 1 ELSE 10 * Pow10(k - 1)

\* number of decimal digits of n >= 1
RECURSIVE NumDigits(_)
NumDigits(n) == IF n < 10 THEN 1 ELSE 1 + NumDigits(n \div 10)

Max(a, b) == IF a >= b THEN a ELSE b

-----------------------------------------------------------------------------
(* Decimal *)

Dec(num, frac) == [num |-> num, frac |-> frac]

DecZero == Dec(0, 0)

\* d <= Decimal("0")
DecLeZero(d) == d.num <= 0

\* canonical form: no trailing zero in the fractional part
RECURSIVE DecNorm(_)
DecNorm(d) ==
    IF d.frac > 0 /\ d.num % 10 = 0 THEN DecNorm(Dec(d.num \div 10, d.frac - 1))
    ELSE d

\* numerator of d at f fractional digits (f >= d.frac)
DecAt(d, f) == d.num * Pow10(f - d.frac)

DecAdd(a, b) ==
    LET f == Max(a.frac, b.frac) IN DecNorm(Dec(DecAt(a, f) + DecAt(b, f), f))

DecLess(a, b) ==
    LET f == Max(a.frac, b.frac) IN DecAt(a, f) < DecAt(b, f)

DecEq(a, b) == DecNorm(a) = DecNorm(b)

\* str(d) of a Decimal with exponent -d.frac: plain notation while the adjusted
\* exponent is at least -6, else scientific notation
DecStr(d) ==
    LET ds       == IntToStr(IF d.num < 0 THEN 0 - d.num ELSE d.num)
        n        == Len(ds)
        adjusted == n - 1 - d.frac
        sign     == IF d.num < 0 THEN <<"-">> ELSE <<>>
    IN  IF d.frac = 0 THEN sign \o ds
        ELSE IF adjusted >= 0 - 6
             THEN IF n > d.frac
                  THEN sign \o SubSeq(ds, 1, n - d.frac) \o <<".">> \o SubSeq(ds, n - d.frac + 1, n)
                  ELSE sign \o <<"0", ".">> \o [i \in 1..(d.frac - n) |-> "0"] \o ds
             ELSE sign \o <<ds[1]>> \o (IF n > 1 THEN <<".">> \o SubSeq(ds, 2, n) ELSE <<>>)
                  \o <<"E", "-">> \o IntToStr(0 - adjusted)

\* Decimal(s) for s over digits, "." and "-": Parsed is <<ok, value>>, ok = FALSE
\* standing for InvalidOperation.  The syntax is [-] digits [. [digits]] | [-] . digits.
DecimalOf(s) ==
    LET neg  == s /= <<>> /\ s[1] = "-"
        body == IF neg THEN Tail(s) ELSE s
        ds   == SelectSeq(body, IsDigit)
        dots == {i \in 1..Len(body) : body[i] = "."}
        ok   == /\ \A i \in 1..Len(body) : IsDigit(body[i]) \/ body[i] = "."
                /\ Cardinality(dots) <= 1
                /\ ds /= <<>>
        frac == IF dots = {} THEN 0 ELSE Len(body) - (CHOOSE i \in dots : TRUE)
        coef == DigitsToInt(ds)
    IN  IF ok THEN <<TRUE, Dec(IF neg THEN 0 - coef ELSE coef, frac)>>
        ELSE <<FALSE, DecZero>>

-----------------------------------------------------------------------------
(* utils/validation.py *)

AmountChars == Digits \cup {".", ",", "-"}

\* re.sub(r"[^\d.,\-]", "", amount_string)
CleanAmount(s) == SelectSeq(s, LAMBDA c : c \in AmountChars)

\* cleaned.replace(",", ".")
CommaToDot(s) == [i \in 1..Len(s) |-> IF s[i] = "," THEN "." ELSE s[i]]

\* None is the empty tuple, a value v is <<v>>
None == <<>>
Some(v) == <<v>>

\* a Python tuple is falsy only when empty
Truthy(t) == Len(t) > 0

\* amount <= Decimal("0") accepted instead of rejected for zero
validate_amount_zero_ok(amount_string) ==
    LET cleaned == CleanAmount(amount_string) IN
    IF cleaned = <<>> THEN <<FALSE, None>>
    ELSE IF Count(cleaned, ".") > 1 \/ Count(cleaned, ",") > 1 \/ Count(cleaned, "-") > 1
        THEN <<FALSE, None>>
    ELSE IF Count(cleaned, "-") > 0 /\ cleaned[1] /= "-" THEN <<FALSE, None>>
    ELSE LET p == DecimalOf(CommaToDot(cleaned)) IN
         IF ~p[1] THEN <<FALSE, None>>
         ELSE IF p[2].num < 0 THEN <<FALSE, Some(p[2])>>
         ELSE <<TRUE, Some(p[2])>>

\* validate_amount: the tuple (is_valid, decimal_amount)
validate_amount(amount_string) ==
    LET cleaned == CleanAmount(amount_string) IN
    IF cleaned = <<>> THEN <<FALSE, None>>
    ELSE IF Count(cleaned, ".") > 1 \/ Count(cleaned, ",") > 1 \/ Count(cleaned, "-") > 1
        THEN <<FALSE, None>>
    ELSE IF Count(cleaned, "-") > 0 /\ cleaned[1] /= "-" THEN <<FALSE, None>>
    ELSE LET p == DecimalOf(CommaToDot(cleaned)) IN
         IF ~p[1] THEN <<FALSE, None>>
         ELSE IF DecLeZero(p[2]) THEN <<FALSE, Some(p[2])>>
         ELSE <<TRUE, Some(p[2])>>

\* parse_amount with the comma deleted instead of replaced by a dot
parse_amount_comma_deleted(amount_string) ==
    LET cleaned == CleanAmount(amount_string) IN
    IF cleaned = <<>> THEN DecZero
    ELSE IF Count(cleaned, "-") > 0 /\ cleaned[1] /= "-" THEN DecZero
    ELSE LET p == DecimalOf(SelectSeq(cleaned, LAMBDA c : c /= ",")) IN
         IF p[1] THEN p[2] ELSE DecZero

\* parse_amount with '.' and ',' deleted as thousands separators
parse_amount_thousands(amount_string) ==
    LET cleaned == CleanAmount(amount_string) IN
    IF cleaned = <<>> THEN DecZero
    ELSE IF Count(cleaned, "-") > 0 /\ cleaned[1] /= "-" THEN DecZero
    ELSE LET p == DecimalOf(SelectSeq(cleaned, LAMBDA c : c \notin {".", ","})) IN
         IF p[1] THEN p[2] ELSE DecZero

\* parse_amount: always a Decimal, 0 when the string cannot be parsed
parse_amount(amount_string) ==
    LET cleaned == CleanAmount(amount_string) IN
    IF cleaned = <<>> THEN DecZero
    ELSE IF Count(cleaned, "-") > 0 /\ cleaned[1] /= "-" THEN DecZero
    ELSE LET p == DecimalOf(CommaToDot(cleaned)) IN
         IF p[1] THEN p[2] ELSE DecZero

-----------------------------------------------------------------------------
(* datetime.strptime(s, "%Y-%m-%d").date(), date.isoformat() *)

IsLeap(y) == (y % 4 = 0 /\ y % 100 /= 0) \/ y % 400 = 0

DaysInMonth(y, m) ==
    IF m = 2 THEN (IF IsLeap(y) THEN 29 ELSE 28)
    ELSE IF m \in {4, 6, 9, 11} THEN 30 ELSE 31

\* the fields of s between its "-" characters
Dashes(s) == {i \in 1..Len(s) : s[i] = "-"}
Field1(s) == SubSeq(s, 1, (CHOOSE i \in Dashes(s) : \A j \in Dashes(s) : i <= j) - 1)
Field2(s) ==
    LET a == CHOOSE i \in Dashes(s) : \A j \in Dashes(s) : i <= j
        b == CHOOSE i \in Dashes(s) : \A j \in Dashes(s) : i >= j
    IN  SubSeq(s, a + 1, b - 1)
Field3(s) == SubSeq(s, (CHOOSE i \in Dashes(s) : \A j \in Dashes(s) : i >= j) + 1, Len(s))

\* %m is 1[0-2]|0[1-9]|[1-9]
MatchesMonth(f) ==
    \/ Len(f) = 1 /\ f[1] \in Digits \ {"0"}
    \/ Len(f) = 2 /\ f[1] = "1" /\ f[2] \in {"0", "1", "2"}
    \/ Len(f) = 2 /\ f[1] = "0" /\ f[2] \in Digits \ {"0"}

\* %d is 3[01]|[12]\d|0[1-9]|[1-9]| [1-9]
MatchesDay(f) ==
    \/ Len(f) = 1 /\ f[1] \in Digits \ {"0"}
    \/ Len(f) = 2 /\ f[1] = "3" /\ f[2] \in {"0", "1"}
    \/ Len(f) = 2 /\ f[1] \in {"1", "2"} /\ f[2] \in Digits
    \/ Len(f) = 2 /\ f[1] \in {"0", " "} /\ f[2] \in Digits \ {"0"}

\* a date value handed around in Python: a date object, a string or None
PyDate(y, m, d) == [kind |-> "date", y |-> y, m |-> m, d |-> d, s |-> <<>>]
PyStr(s) == [kind |-> "str", y |-> 0, m |-> 0, d |-> 0, s |-> s]
PyNone == [kind |-> "none", y |-> 0, m |-> 0, d |-> 0, s |-> <<>>]

\* <<ok, date>>, ok = FALSE standing for ValueError
strptime(s) ==
    IF Cardinality(Dashes(s)) /= 2 THEN <<FALSE, None>>
    ELSE LET fy == Field1(s)
             fm == Field2(s)
             fd == Field3(s)
         IN  IF ~(Len(fy) = 4 /\ AllDigits(fy) /\ MatchesMonth(fm) /\ MatchesDay(fd))
             THEN <<FALSE, None>>
             ELSE LET y == DigitsToInt(fy)
                      m == DigitsToInt(fm)
                      d == DigitsToInt(SelectSeq(fd, IsDigit))
                  IN  IF y >= 1 /\ d <= DaysInMonth(y, m)
                      THEN <<TRUE, Some(PyDate(y, m, d))>>
                      ELSE <<FALSE, None>>

\* validate_date: the tuple (is_valid, date_object)
validate_date(date_string) == strptime(date_string)

isoformat(dt) == Pad4(dt.y) \o <<"-">> \o Pad2(dt.m) \o <<"-">> \o Pad2(dt.d)

-----------------------------------------------------------------------------
(* SQLite: strftime('%Y', date), strftime('%m', date) on a stored text date.   *)
(* SQLite reads a date only as YYYY-MM-DD (4, 2 and 2 digits, month 1..12, day *)
(* 1..31); for any other text of the model's alphabet strftime is NULL (None). *)

SqliteDateOk(s) ==
    /\ Len(s) = 10
    /\ s[5] = "-" /\ s[8] = "-"
    /\ \A i \in {1, 2, 3, 4, 6, 7, 9, 10} : IsDigit(s[i])
    /\ DigitsToInt(SubSeq(s, 6, 7)) \in 1..12
    /\ DigitsToInt(SubSeq(s, 9, 10)) \in 1..31

strftimeY(s) == IF SqliteDateOk(s) THEN Some(SubSeq(s, 1, 4)) ELSE None
strftimeM(s) == IF SqliteDateOk(s) THEN Some(SubSeq(s, 6, 7)) ELSE None

\* x = ? in a WHERE clause: NULL = ? is not true
SqlEq(x, param) == x /= None /\ x[1] = param

\* binary collation of text
Upper ==
    <<"A", "B", "C", "D", "E", "F", "G", "H", "I", "J", "K", "L", "M", "N",
      "O", "P", "Q", "R", "S", "T", "U", "V", "W", "X", "Y", "Z">>
Lower ==
    <<"a", "b", "c", "d", "e", "f", "g", "h", "i", "j", "k", "l", "m", "n",
      "o", "p", "q", "r", "s", "t", "u", "v", "w", "x", "y", "z">>

CharOrd(c) ==
    CASE c = " " -> 32 [] c = "&" -> 38 [] c = "," -> 44 [] c = "-" -> 45 [] c = "." -> 46
      [] c = "/" -> 47
      [] c \in Digits -> 48 + DigitVal(c)
      [] \E i \in 1..26 : Upper[i] = c -> 64 + (CHOOSE i \in 1..26 : Upper[i] = c)
      [] \E i \in 1..26 : Lower[i] = c -> 96 + (CHOOSE i \in 1..26 : Lower[i] = c)
      [] OTHER -> 127

RECURSIVE TextLess(_, _)
TextLess(a, b) ==
    IF b = <<>> THEN FALSE
    ELSE IF a = <<>> THEN TRUE
    ELSE IF CharOrd(a[1]) /= CharOrd(b[1]) THEN CharOrd(a[1]) < CharOrd(b[1])
    ELSE TextLess(Tail(a), Tail(b))

-----------------------------------------------------------------------------
(* services/database_service.py: DatabaseService on a database file *)

\* float(amount): a Decimal below the smallest subnormal double becomes 0.0; a
\* double v has v < 10^-FloatMinDigits exactly when it is 0.  Every other value
\* is kept exactly (rounding to 53 bits is not modelled).  None becomes 0.0.
FloatMinDigits == 324

Abs(n) == IF n < 0 THEN 0 - n ELSE n

PyFloat(amount) ==
    IF amount = None THEN DecZero
    ELSE LET d == amount[1] IN
         IF d.num = 0 THEN DecZero
         ELSE IF d.frac - NumDigits(Abs(d.num)) >= FloatMinDigits THEN DecZero
         ELSE DecNorm(d)

\* date_value.isoformat() for a date, str(date_value) for a non-empty string, else ""
DateToText(date_value) ==
    IF date_value.kind = "date" THEN isoformat(date_value)
    ELSE IF date_value.kind = "str" THEN date_value.s
    ELSE <<>>

\* _extract_expense_data followed by _prepare_expense_for_db:
\* (date_str, category, amount_float, description)
prepare_expense_for_db(expense) ==
    [date        |-> DateToText(expense.date),
     category    |-> expense.category,
     amount      |-> PyFloat(expense.amount),
     description |-> expense.description]

Stored(E) == DOMAIN E

RowDict(E, id) ==
    [id |-> id, date |-> E[id].date, category |-> E[id].category,
     amount |-> E[id].amount, description |-> E[id].description,
     created_at |-> E[id].created_at]

Remove(E, id) == [i \in DOMAIN E \ {id} |-> E[i]]

\* add_expense on a table whose id is INTEGER PRIMARY KEY without AUTOINCREMENT: the
\* id is the successor of the largest id in the table
add_expense_max_rowid(E, s, now, expense) ==
    LET d  == prepare_expense_for_db(expense)
        id == IF Stored(E) = {} THEN 1
              ELSE (CHOOSE x \in Stored(E) : \A y \in Stored(E) : y <= x) + 1
    IN  IF d.category = None
        THEN [expenses |-> E, seq |-> s, ret |-> None, exc |-> TRUE]
        ELSE [expenses |-> E @@ (id :>
                            [date |-> d.date, category |-> d.category[1], amount |-> d.amount,
                             description |-> d.description, created_at |-> now]),
              seq |-> Max(s, id), ret |-> Some(id), exc |-> FALSE]

\* add_expense: INSERT; the id is the AUTOINCREMENT successor of sqlite_sequence.
\* A NULL category violates NOT NULL: sqlite3.IntegrityError is re-raised.
add_expense(E, s, now, expense) ==
    LET d == prepare_expense_for_db(expense) IN
    IF d.category = None
    THEN [expenses |-> E, seq |-> s, ret |-> None, exc |-> TRUE]
    ELSE [expenses |-> E @@ ((s + 1) :>
                        [date |-> d.date, category |-> d.category[1], amount |-> d.amount,
                         description |-> d.description, created_at |-> now]),
          seq |-> s + 1, ret |-> Some(s + 1), exc |-> FALSE]

\* get_expense_by_id: dict(row) or None
get_expense_by_id(E, expense_id) ==
    IF expense_id \in Stored(E) THEN Some(RowDict(E, expense_id)) ELSE None

\* update_expense: UPDATE ... WHERE id = ?; rowcount > 0.  sqlite3.Error (NOT NULL
\* on a row that matched) is caught and False returned.
update_expense(E, expense_id, expense) ==
    LET d == prepare_expense_for_db(expense) IN
    IF expense_id \notin Stored(E) THEN [expenses |-> E, ret |-> FALSE, exc |-> FALSE]
    ELSE IF d.category = None THEN [expenses |-> E, ret |-> FALSE, exc |-> FALSE]
    ELSE [expenses |-> [E EXCEPT ![expense_id] =
                          [date |-> d.date, category |-> d.category[1], amount |-> d.amount,
                           description |-> d.description, created_at |-> @.created_at]],
          ret |-> TRUE, exc |-> FALSE]

\* delete_expense answering True whatever the rowcount
delete_expense_always_true(E, expense_id) ==
    IF expense_id \in Stored(E)
    THEN [expenses |-> Remove(E, expense_id), ret |-> TRUE, exc |-> FALSE]
    ELSE [expenses |-> E, ret |-> TRUE, exc |-> FALSE]

\* delete_expense: DELETE ... WHERE id = ?; rowcount > 0
delete_expense(E, expense_id) ==
    IF expense_id \in Stored(E)
    THEN [expenses |-> Remove(E, expense_id), ret |-> TRUE, exc |-> FALSE]
    ELSE [expenses |-> E, ret |-> FALSE, exc |-> FALSE]

\* truthiness of an Optional[int] and of an Optional[str]
TruthyInt(x) == x /= None /\ x[1] /= 0
TruthyStr(x) == x /= None /\ x[1] /= <<>>

\* the WHERE clause get_expenses builds
MatchesFilters(row, month, year, category) ==
    /\ IF TruthyInt(month) /\ TruthyInt(year)
       THEN SqlEq(strftimeY(row.date), IntToStr(year[1]))
            /\ SqlEq(strftimeM(row.date), Pad2(month[1]))
       ELSE IF TruthyInt(year) THEN SqlEq(strftimeY(row.date), IntToStr(year[1]))
       ELSE TRUE
    /\ TruthyStr(category) => row.category = category[1]

\* the arrangements of a finite set
Arrangements(S) ==
    {p \in [1..Cardinality(S) -> S] : \A i, j \in 1..Cardinality(S) : i /= j => p[i] /= p[j]}

\* a comes strictly after b under ORDER BY date DESC, created_at DESC
OrderedAfter(E, a, b) ==
    \/ TextLess(E[a].date, E[b].date)
    \/ E[a].date = E[b].date /\ E[a].created_at < E[b].created_at

\* get_expenses: the row lists SELECT ... ORDER BY date DESC, created_at DESC may
\* return; SQL leaves the order of rows with equal sort keys open.
get_expenses(E, month, year, category) ==
    LET ids == {i \in Stored(E) : MatchesFilters(E[i], month, year, category)}
        ok(p) == \A i, j \in 1..Len(p) : i < j => ~OrderedAfter(E, p[i], p[j])
    IN  {[k \in 1..Len(p) |-> RowDict(E, p[k])] : p \in {q \in Arrangements(ids) : ok(q)}}

RECURSIVE SumAmounts(_, _)
SumAmounts(E, ids) ==
    IF ids = {} THEN DecZero
    ELSE LET i == CHOOSE x \in ids : TRUE
         IN  DecAdd(E[i].amount, SumAmounts(E, ids \ {i}))

\* rows of the month: strftime('%Y', date) = ? AND strftime('%m', date) = ?
InMonth(E, year, month) ==
    {i \in Stored(E) : /\ SqlEq(strftimeY(E[i].date), IntToStr(year))
                       /\ SqlEq(strftimeM(E[i].date), Pad2(month))}

\* get_monthly_summary: COALESCE(SUM(amount), 0) and the GROUP BY category
\* ORDER BY total DESC breakdowns (groups of equal total in any order)
get_monthly_summary(E, year, month) ==
    LET ids    == InMonth(E, year, month)
        cats   == {E[i].category : i \in ids}
        tot(c) == SumAmounts(E, {i \in ids : E[i].category = c})
        ok(p)  == \A i, j \in 1..Len(p) : i < j => ~DecLess(tot(p[i]), tot(p[j]))
    IN  {[year |-> year, month |-> month,
          total_expenses |-> SumAmounts(E, ids),
          category_breakdown |-> [k \in 1..Len(p) |-> [category |-> p[k], total |-> tot(p[k])]]]
         : p \in {q \in Arrangements(cats) : ok(q)}}

\* rows of the year: strftime('%Y', date) = ?
InYear(E, year) == {i \in Stored(E) : SqlEq(strftimeY(E[i].date), IntToStr(year))}

\* the months 1..12 of a set, ascending
RECURSIVE Ascending(_)
Ascending(S) ==
    IF S = {} THEN <<>>
    ELSE LET m == CHOOSE x \in S : \A y \in S : x <= y
         IN  <<m>> \o Ascending(S \ {m})

\* get_yearly_summary: COALESCE(SUM(amount), 0), COUNT(*) and the GROUP BY
\* strftime('%m', date) ORDER BY month breakdown (month is the two-digit text)
get_yearly_summary(E, year) ==
    LET ids     == InYear(E, year)
        of(m)   == {i \in ids : strftimeM(E[i].date) = Some(Pad2(m))}
        months  == Ascending({m \in 1..12 : of(m) /= {}})
    IN  [year |-> year,
         total_expenses |-> SumAmounts(E, ids),
         transaction_count |-> Cardinality(ids),
         monthly_breakdown |->
            [k \in 1..Len(months) |->
                [month |-> Pad2(months[k]),
                 total |-> SumAmounts(E, of(months[k])),
                 count |-> Cardinality(of(months[k]))]]]

\* the names of default_categories
DefaultCategoryNames ==
    {<<"M", "a", "k", "a", "n", "a", "n", " ", "&", " ", "M", "i", "n", "u", "m", "a", "n">>,
     <<"T", "r", "a", "n", "s", "p", "o", "r", "t", "a", "s", "i">>,
     <<"B", "e", "l", "a", "n", "j", "a">>,
     <<"H", "i", "b", "u", "r", "a", "n">>,
     <<"K", "e", "s", "e", "h", "a", "t", "a", "n">>,
     <<"P", "e", "n", "d", "i", "d", "i", "k", "a", "n">>,
     <<"T", "a", "g", "i", "h", "a", "n">>,
     <<"L", "a", "i", "n", "-", "l", "a", "i", "n">>}

\* initialize_database with a plain INSERT into a table without UNIQUE (name)
initialize_database_plain_insert(C, budget_limit) ==
    C \cup {[name |-> n, budget_limit |-> budget_limit] : n \in DefaultCategoryNames}

\* initialize_database: CREATE TABLE IF NOT EXISTS leaves existing tables alone, and
\* INSERT OR IGNORE adds a default category only when no row has its name (name is
\* UNIQUE).  budget_limit is None in DatabaseService and 0 in DatabaseConfig.
initialize_database(C, budget_limit) ==
    C \cup {[name |-> n, budget_limit |-> budget_limit] :
               n \in {m \in DefaultCategoryNames : \A c \in C : c.name /= m}}

\* SELECT * FROM categories without the ORDER BY: rows from the last name down
RECURSIVE get_all_categories_descending(_)
get_all_categories_descending(C) ==
    IF C = {} THEN <<>>
    ELSE LET m == CHOOSE c \in C : \A d \in C : ~TextLess(c.name, d.name)
         IN  <<m>> \o get_all_categories_descending(C \ {m})

\* get_all_categories: SELECT * FROM categories ORDER BY name (names are UNIQUE, so
\* the order is total)
RECURSIVE get_all_categories(_)
get_all_categories(C) ==
    IF C = {} THEN <<>>
    ELSE LET m == CHOOSE c \in C : \A d \in C : ~TextLess(d.name, c.name)
         IN  <<m>> \o get_all_categories(C \ {m})

\* the operations of DatabaseService that open a connection and execute SQL
StorageOps ==
    {"add_expense", "get_expenses", "get_expense_by_id", "update_expense",
     "delete_expense", "get_categories", "get_monthly_summary", "get_yearly_summary"}

\* what an operation gives its caller when get_connection or execute raises
\* sqlite3.Error: add_expense logs and re-raises; every other operation logs and
\* returns the value of its except branch.  No operation has a retry loop.
on_storage_error(op, year, month) ==
    CASE op = "add_expense"         -> [ret |-> None, exc |-> TRUE, attempts |-> 1]
      [] op = "get_expenses"        -> [ret |-> <<>>, exc |-> FALSE, attempts |-> 1]
      [] op = "get_expense_by_id"   -> [ret |-> None, exc |-> FALSE, attempts |-> 1]
      [] op = "update_expense"      -> [ret |-> FALSE, exc |-> FALSE, attempts |-> 1]
      [] op = "delete_expense"      -> [ret |-> FALSE, exc |-> FALSE, attempts |-> 1]
      [] op = "get_categories"      -> [ret |-> <<>>, exc |-> FALSE, attempts |-> 1]
      [] op = "get_monthly_summary" ->
            [ret |-> [year |-> year, month |-> month, total_expenses |-> DecZero,
                      category_breakdown |-> <<>>],
             exc |-> FALSE, attempts |-> 1]
      [] op = "get_yearly_summary"  ->
            [ret |-> [year |-> year, total_expenses |-> DecZero, transaction_count |-> 0,
                      monthly_breakdown |-> <<>>],
             exc |-> FALSE, attempts |-> 1]

\* the loop of add_batch_expenses inside its transaction: the rows inserted one after
\* the other until one raises (float(None) is a TypeError, a NULL category violates
\* NOT NULL); failed tells whether one did
RECURSIVE InsertRows(_, _, _, _, _)
InsertRows(E, s, now, batch, ids) ==
    IF batch = <<>> THEN [expenses |-> E, seq |-> s, ids |-> ids, failed |-> FALSE]
    ELSE LET e == Head(batch) IN
         IF e.amount = None \/ e.category = None
         THEN [expenses |-> E, seq |-> s, ids |-> ids, failed |-> TRUE]
         ELSE InsertRows(E @@ ((s + 1) :>
                              [date |-> DateToText(e.date), category |-> e.category[1],
                               amount |-> PyFloat(e.amount), description |-> e.description,
                               created_at |-> now]),
                         s + 1, now, Tail(batch), Append(ids, s + 1))

\* add_batch_expenses committing what it has inserted when a row raises
add_batch_expenses_no_rollback(E, s, now, batch) ==
    LET r == InsertRows(E, s, now, batch, <<>>) IN
    IF r.failed THEN [expenses |-> r.expenses, seq |-> r.seq, ret |-> None, exc |-> TRUE]
    ELSE [expenses |-> r.expenses, seq |-> r.seq, ret |-> Some(r.ids), exc |-> FALSE]

\* add_batch_expenses: conn.commit() after the loop; on an exception conn.rollback()
\* (the tables, sqlite_sequence included, are as before the call) and the exception
\* is raised again
add_batch_expenses(E, s, now, batch) ==
    LET r == InsertRows(E, s, now, batch, <<>>) IN
    IF r.failed THEN [expenses |-> E, seq |-> s, ret |-> None, exc |-> TRUE]
    ELSE [expenses |-> r.expenses, seq |-> r.seq, ret |-> Some(r.ids), exc |-> FALSE]

-----------------------------------------------------------------------------
(* services/database_service.py: the connections of a DatabaseService *)

\* __init__ before initialize_database: in_memory is db_path == ":memory:", shared is
\* "self._connection is not None", tables says whether the database the next
\* connection reaches has the tables, open counts the connections not closed, locked
\* says that one of them is inside a write transaction it never ended, opened and
\* closed count what the last operation opened and closed
NewService(in_memory) ==
    [in_memory |-> in_memory, shared |-> FALSE, tables |-> ~in_memory,
     was_closed |-> FALSE, open |-> 0, locked |-> FALSE, opened |-> 0, closed |-> 0]

\* get_connection connecting anew at every call, in memory too
get_connection_always_new(c) ==
    [c EXCEPT !.shared = c.in_memory, !.open = @ + 1, !.opened = @ + 1,
              !.tables = ~c.in_memory]

\* get_connection: the kept connection of an in-memory database (connected at the
\* first call, to a new and empty database), a new connection to the file otherwise
get_connection(c) ==
    IF c.in_memory
    THEN IF ~c.shared
         THEN [c EXCEPT !.shared = TRUE, !.open = @ + 1, !.opened = @ + 1, !.tables = FALSE]
         ELSE c
    ELSE [c EXCEPT !.open = @ + 1, !.opened = @ + 1]

\* an operation starts: conn = self.get_connection()
Begin(c) == get_connection([c EXCEPT !.opened = 0, !.closed = 0])

\* the end of a try block: "if not self.in_memory: conn.close()"
Release(c) ==
    IF c.in_memory THEN c ELSE [c EXCEPT !.open = @ - 1, !.closed = @ + 1]

\* the except branch: get_monthly_summary and get_yearly_summary close the
\* connection of a file, the other operations leave it open; a connection left open
\* after its INSERT, UPDATE or DELETE was refused (holding) keeps the write lock of
\* the file
ReleaseOnError(c, op, holding) ==
    IF op \in {"get_monthly_summary", "get_yearly_summary"} THEN Release(c)
    ELSE IF c.in_memory THEN c
    ELSE [c EXCEPT !.locked = @ \/ holding]

\* close(): closes the kept connection, and with it the in-memory database
close(c) ==
    IF c.shared
    THEN [c EXCEPT !.shared = FALSE, !.open = @ - 1, !.opened = 0, !.closed = 1,
                   !.was_closed = TRUE]
    ELSE [c EXCEPT !.opened = 0, !.closed = 0, !.was_closed = TRUE]

\* DatabaseService(db_path): __init__ and its initialize_database
Constructed(in_memory) ==
    Release([(Begin(NewService(in_memory))) EXCEPT !.tables = TRUE])

\* CREATE TABLE IF NOT EXISTS expenses: the table is created by the first
\* initialize_database to run, DatabaseService's (who = "service", amount DECIMAL(10,2)
\* NOT NULL) or DatabaseConfig's (who = "config", ... CHECK (amount >= 0)); a later
\* one finds the table and leaves it
create_table(sch, who) == IF sch = "absent" THEN who ELSE sch

\* the CHECK constraint of the table refuses the amount
CheckRefuses(sch, amount) == sch = "config" /\ amount.num < 0

\* does the statement of a writing operation raise sqlite3.Error: no table, or the
\* file locked by a connection left open
WriteFails(c) == ~c.tables \/ (~c.in_memory /\ c.locked)

-----------------------------------------------------------------------------
(* services/expense_service.py: ExpenseService *)

Failure(msg) == [success |-> FALSE, error |-> msg]

\* Expense(date=expense_date, category=category, amount=amount, description=description)
Expense(dt, category, amount, description) ==
    [date |-> dt, category |-> Some(category),
     amount |-> Some(amount), description |-> description]

\* create_expense without the "amount <= 0" test after parse_amount
create_expense_unchecked_amount(E, s, now, date_str, category, amount_str, description) ==
    LET same(r) == [expenses |-> E, seq |-> s, ret |-> r, exc |-> FALSE] IN
    IF ~Truthy(validate_date(date_str)) THEN same(Failure("Invalid date format"))
    ELSE IF ~Truthy(validate_amount(amount_str)) THEN same(Failure("Invalid amount format"))
    ELSE LET dt == strptime(date_str) IN
         IF ~dt[1] THEN same(Failure("Validation error"))
         ELSE LET amount == parse_amount(amount_str)
                  r == add_expense(E, s, now, Expense(dt[2][1], category, amount, description))
              IN  IF r.exc THEN same(Failure("System error"))
                  ELSE [expenses |-> r.expenses, seq |-> r.seq,
                        ret |-> [success |-> TRUE, expense_id |-> r.ret[1]],
                        exc |-> FALSE]

\* create_expense: validate_date and validate_amount return tuples, which are always
\* truthy, so the first two tests never reject; strptime raising ValueError and the
\* "amount <= 0" test do.  Any other exception becomes a "System error" result.
create_expense(E, s, now, date_str, category, amount_str, description) ==
    LET same(r) == [expenses |-> E, seq |-> s, ret |-> r, exc |-> FALSE] IN
    IF ~Truthy(validate_date(date_str)) THEN same(Failure("Invalid date format"))
    ELSE IF ~Truthy(validate_amount(amount_str)) THEN same(Failure("Invalid amount format"))
    ELSE LET dt == strptime(date_str) IN
         IF ~dt[1] THEN same(Failure("Validation error"))
         ELSE LET amount == parse_amount(amount_str) IN
              IF DecLeZero(amount) THEN same(Failure("Amount must be greater than 0"))
              ELSE LET r == add_expense(E, s, now, Expense(dt[2][1], category, amount, description))
                   IN  IF r.exc THEN same(Failure("System error"))
                       ELSE [expenses |-> r.expenses, seq |-> r.seq,
                             ret |-> [success |-> TRUE, expense_id |-> r.ret[1]],
                             exc |-> FALSE]

Whitespace == {" "}

\* validate_expense_data: the list of errors
validate_expense_data(date_str, amount_str, category) ==
    (IF ~Truthy(validate_date(date_str)) THEN <<"Invalid date format">> ELSE <<>>)
    \o (IF ~Truthy(validate_amount(amount_str)) THEN <<"Invalid amount format">>
        ELSE IF DecLeZero(parse_amount(amount_str)) THEN <<"Amount must be greater than 0">>
        ELSE <<>>)
    \o (IF category = <<>> \/ (\A i \in 1..Len(category) : category[i] \in Whitespace)
        THEN <<"Category is required">> ELSE <<>>)

\* ExpenseService.update_expense
svc_update_expense(E, expense_id, date_str, category, amount_str, description) ==
    LET same(r) == [expenses |-> E, ret |-> r, exc |-> FALSE]
        errors  == validate_expense_data(date_str, amount_str, category)
    IN  IF errors /= <<>> THEN same(Failure(errors[1]))
        ELSE LET dt == strptime(date_str) IN
             IF ~dt[1] THEN same(Failure("Validation error"))
             ELSE LET r == update_expense(E, expense_id,
                               Expense(dt[2][1], category, parse_amount(amount_str), description))
                  IN  IF r.ret THEN [expenses |-> r.expenses,
                                     ret |-> [success |-> TRUE], exc |-> FALSE]
                      ELSE same(Failure("not found"))

\* ExpenseService.delete_expense
svc_delete_expense(E, expense_id) ==
    LET r == delete_expense(E, expense_id) IN
    IF r.ret THEN [expenses |-> r.expenses, ret |-> [success |-> TRUE], exc |-> FALSE]
    ELSE [expenses |-> E, ret |-> Failure("not found"), exc |-> FALSE]

\* item['total'] / total, not multiplied by 100
Percentage_ratio(item_total, total) ==
    LET f == Max(item_total.frac, total.frac)
    IN  [num |-> DecAt(item_total, f), den |-> DecAt(total, f)]

\* (item['total'] / total) * 100 as the exact fraction num / den
Percentage(item_total, total) ==
    LET f == Max(item_total.frac, total.frac)
    IN  [num |-> DecAt(item_total, f) * 100, den |-> DecAt(total, f)]

\* get_monthly_analysis: the summary, each breakdown item given its percentage when
\* the total is positive
get_monthly_analysis(E, year, month) ==
    {IF summary.total_expenses.num > 0
     THEN [summary EXCEPT !.category_breakdown =
             [k \in 1..Len(@) |->
                [category |-> @[k].category, total |-> @[k].total,
                 percentage |-> Percentage(@[k].total, summary.total_expenses)]]]
     ELSE summary
     : summary \in get_monthly_summary(E, year, month)}

-----------------------------------------------------------------------------
(* analysis_service.py: AnalysisService *)

\* the monthly_totals list of get_yearly_summary from the given month on: an entry for
\* each month whose summary has total_expenses > 0 (the total and the number of rows
\* are the same in every admissible row order)
RECURSIVE monthly_totals(_, _, _)
monthly_totals(E, year, month) ==
    IF month > 12 THEN <<>>
    ELSE LET summary == CHOOSE x \in get_monthly_summary(E, year, month) : TRUE
             rows    == CHOOSE x \in get_expenses(E, Some(month), Some(year), None) : TRUE
             rest    == monthly_totals(E, year, month + 1)
         IN  IF summary.total_expenses.num > 0
             THEN <<[month |-> month, year |-> year, total |-> summary.total_expenses,
                     transaction_count |-> Len(rows)]>> \o rest
             ELSE rest

\* sum(item["total"] for item in items)
RECURSIVE SumOfTotals(_)
SumOfTotals(items) ==
    IF items = <<>> THEN DecZero
    ELSE DecAdd(Head(items).total, SumOfTotals(Tail(items)))

\* max(items, key=total) and min(items, key=total): the first of the largest, the
\* first of the smallest
MaxByTotal(items) ==
    items[CHOOSE k \in 1..Len(items) :
            /\ \A j \in 1..Len(items) : ~DecLess(items[k].total, items[j].total)
            /\ \A j \in 1..(k - 1) : DecLess(items[j].total, items[k].total)]
MinByTotal(items) ==
    items[CHOOSE k \in 1..Len(items) :
            /\ \A j \in 1..Len(items) : ~DecLess(items[j].total, items[k].total)
            /\ \A j \in 1..(k - 1) : DecLess(items[k].total, items[j].total)]

\* a / n as the exact quotient [num, den] (a a Decimal, n a positive integer)
Quotient(a, n) == [num |-> DecNorm(a), den |-> n]

\* AnalysisService.get_yearly_summary
analysis_get_yearly_summary(E, year) ==
    LET items      == monthly_totals(E, year, 1)
        total_year == SumOfTotals(items)
    IN  [year |-> year,
         total_expenses |-> total_year,
         monthly_average |-> IF items /= <<>> THEN Quotient(total_year, Len(items))
                             ELSE Quotient(DecZero, 1),
         monthly_breakdown |-> items,
         most_expensive_month |-> IF items /= <<>> THEN Some(MaxByTotal(items)) ELSE None,
         least_expensive_month |-> IF items /= <<>> THEN Some(MinByTotal(items)) ELSE None]

\* utils/date_utils.py: get_previous_month
get_previous_month(year, month) ==
    IF month = 1 THEN <<year - 1, 12>> ELSE <<year, month - 1>>

\* d - timedelta(days=n)
RECURSIVE MinusDays(_, _)
MinusDays(d, n) ==
    IF n < d.d THEN PyDate(d.y, d.m, d.d - n)
    ELSE LET p == get_previous_month(d.y, d.m)
         IN  MinusDays(PyDate(p[1], p[2], DaysInMonth(p[1], p[2])), n - d.d)

\* the total of the category in a breakdown, 0 when it is not there
CategoryTotal(breakdown, category) ==
    IF \E k \in 1..Len(breakdown) : breakdown[k].category = category
    THEN breakdown[CHOOSE k \in 1..Len(breakdown) : breakdown[k].category = category].total
    ELSE DecZero

\* AnalysisService.get_category_trends with datetime.now().date() = end_date: entry i
\* is for the month of end_date - 30 * i days (each category is in a breakdown once,
\* so the entry is the same for every admissible order of the breakdown)
get_category_trends(E, end_date, category, months) ==
    [n \in 1..months |->
        LET target_date    == MinusDays(end_date, 30 * (n - 1))
            summary        == CHOOSE x \in get_monthly_summary(E, target_date.y, target_date.m) : TRUE
            category_total == CategoryTotal(summary.category_breakdown, category)
        IN  [month |-> target_date.m,
             year |-> target_date.y,
             total |-> category_total,
             percentage |-> IF summary.total_expenses.num > 0
                            THEN Percentage(category_total, summary.total_expenses)
                            ELSE [num |-> 0, den |-> 1]]]

\* date comparison a <= b
DateLe(a, b) ==
    \/ a.y < b.y
    \/ a.y = b.y /\ a.m < b.m
    \/ a.y = b.y /\ a.m = b.m /\ a.d <= b.d

\* days of the year before the first of month m
RECURSIVE DaysBeforeMonth(_, _)
DaysBeforeMonth(y, m) ==
    IF m = 1 THEN 0 ELSE DaysBeforeMonth(y, m - 1) + DaysInMonth(y, m - 1)

\* date.toordinal()
toordinal(d) ==
    LET p == d.y - 1
    IN  365 * p + (p \div 4) - (p \div 100) + (p \div 400) + DaysBeforeMonth(d.y, d.m) + d.d

\* strftime("%A") as date.weekday(): 0 is Monday ... 6 is Sunday
Weekday(d) == (toordinal(d) + 6) % 7

\* a Decimal as the fraction num / den
AsFraction(d) == [num |-> d.num, den |-> Pow10(d.frac)]

\* _get_category_distribution: category -> share in percent when the total is
\* positive, else category -> its total
get_category_distribution(rows) ==
    LET cats   == {rows[k].category : k \in 1..Len(rows)}
        sub(c) == SelectSeq(rows, LAMBDA r : r.category = c)
        category_totals == [c \in cats |-> SumOfTotals([k \in 1..Len(sub(c)) |-> [total |-> sub(c)[k].amount]])]
        total  == SumOfTotals([k \in 1..Len(rows) |-> [total |-> rows[k].amount]])
    IN  IF total.num > 0
        THEN [c \in cats |-> Percentage(category_totals[c], total)]
        ELSE [c \in cats |-> AsFraction(category_totals[c])]

\* Counter(weekdays).most_common(1)[0]: the day of the highest count, the one
\* counted first among equals
most_common(weekdays) ==
    LET n(d)     == Cardinality({k \in 1..Len(weekdays) : weekdays[k] = d})
        first(d) == CHOOSE k \in 1..Len(weekdays) :
                       weekdays[k] = d /\ \A j \in 1..(k - 1) : weekdays[j] /= d
        days     == {weekdays[k] : k \in 1..Len(weekdays)}
        best     == CHOOSE d \in days :
                       \A e \in days : n(e) < n(d) \/ (n(e) = n(d) /\ first(d) <= first(e))
    IN  <<best, n(best)>>

\* AnalysisService.get_spending_patterns on the rows get_expenses() returned;
\* exc stands for the ValueError of strptime on a stored date it cannot read
get_spending_patterns(rows, start_date, end_date) ==
    IF \E k \in 1..Len(rows) : ~strptime(rows[k].date)[1]
    THEN [ret |-> None, exc |-> TRUE]
    ELSE LET on(r)    == strptime(r.date)[2][1]
             filtered == SelectSeq(rows, LAMBDA r : DateLe(start_date, on(r)) /\ DateLe(on(r), end_date))
             total    == SumOfTotals([k \in 1..Len(filtered) |-> [total |-> filtered[k].amount]])
             weekdays == [k \in 1..Len(filtered) |-> Weekday(on(filtered[k]))]
         IN  IF filtered = <<>>
             THEN [ret |-> Some([message |-> "No expenses in date range"]), exc |-> FALSE]
             ELSE [ret |-> Some([total_expenses |-> total,
                                 transaction_count |-> Len(filtered),
                                 average_per_transaction |-> Quotient(total, Len(filtered)),
                                 most_common_day |-> most_common(weekdays)[1],
                                 day_frequency |-> most_common(weekdays)[2],
                                 category_distribution |-> get_category_distribution(filtered)]),
                   exc |-> FALSE]

-----------------------------------------------------------------------------
(* Inputs *)

D_2024_01_15 == <<"2", "0", "2", "4", "-", "0", "1", "-", "1", "5">>
D_2024_1_5   == <<"2", "0", "2", "4", "-", "1", "-", "5">>
D_2024_02_30 == <<"2", "0", "2", "4", "-", "0", "2", "-", "3", "0">>

Food      == <<"F", "o", "o", "d">>
Transport == <<"T", "r", "a", "n", "s", "p", "o", "r", "t">>

\* "0." followed by FloatMinDigits zeros and "1"
TinyAmountString == <<"0", ".">> \o [i \in 1..FloatMinDigits |-> "0"] \o <<"1">>
TinyDecimal == Dec(1, FloatMinDigits + 1)

\* expenses handed to DatabaseService: a date object or a string, a Decimal or a float
DbExpense(date, category, amount, description) ==
    [date |-> date, category |-> Some(category), amount |-> Some(amount),
     description |-> description]
DbExpenses ==
    {DbExpense(PyDate(2024, 2, 1), Transport, Dec(0 - 5, 0), "taxi"),
     DbExpense(PyStr(D_2024_01_15), Food, Dec(25, 1), "lunch"),
     DbExpense(PyStr(D_2024_01_15), Transport, Dec(75, 1), "bus"),
     DbExpense(PyStr(D_2024_01_15), Food, TinyDecimal, "gum"),
     DbExpense(PyStr(D_2024_1_5), Food, Dec(10, 0), "snack")}

\* strings typed into the service layer
SvcInput(date_str, category, amount_str) ==
    [date_str |-> date_str, category |-> category, amount_str |-> amount_str,
     description |-> ""]
SvcInputs ==
    {SvcInput(D_2024_01_15, Food, <<"1", "0">>),
     SvcInput(D_2024_1_5, Food, <<"1", ",", "5">>),
     SvcInput(D_2024_02_30, Food, <<"1", "0">>),
     SvcInput(<<>>, Food, <<"1", "0">>),
     SvcInput(D_2024_01_15, Food, <<"0">>),
     SvcInput(D_2024_01_15, Food, <<"R", "p", " ", "-", "5">>),
     SvcInput(D_2024_01_15, Food, <<"1", ".", "0", ".", "0">>),
     SvcInput(D_2024_01_15, Transport, TinyAmountString),
     SvcInput(D_2024_01_15, <<>>, <<"1", "0">>),
     SvcInput(D_2024_01_15, <<" ">>, <<"1", "0">>)}

Ids == 1..MaxId
QueryYears == {None, Some(2024), Some(2023)}
QueryMonths == {None, Some(1), Some(2)}
QueryCategories == {None, Some(Food), Some(Transport)}

\* amount strings of the validation run
AmountAlphabet == {"0", "1", ".", ",", "-", "R"}
AmountStrings == UNION {[1..n -> AmountAlphabet] : n \in 0..MaxLen}

\* the amounts the validation examples name
AmountExamples ==
    {<<"5", "0", "0", "0", "0">>,
     <<"5", "0", ",", "0", "0", "0">>,
     <<"R", "p", " ", "1", "0", "0", ".", "0", "0", "0">>,
     <<"1", ".", "0", "0", "0", ".", "0", "0", "0">>,
     <<"1", ",", "0", "0", "0", ",", "0", "0", "0">>,
     <<"1", "0", "-", "0", "0">>,
     <<"-", "1", "0", "0">>,
     <<"0">>,
     <<>>}

-----------------------------------------------------------------------------
(* The state machine *)

\* DatabaseService.initialize_database: the default categories
DefaultCategories == {[name |-> n, budget_limit |-> None] : n \in DefaultCategoryNames}

Call(op, arg, ret, exc) == [op |-> op, arg |-> arg, ret |-> ret, exc |-> exc]

\* the state after ExpenseService() / DatabaseService() on a fresh database file
Init ==
    /\ expenses = <<>>
    /\ categories = DefaultCategories
    /\ seq = 0
    /\ clock = 0
    /\ last = Call("init", None, None, FALSE)
    /\ vin = <<>>
    /\ vout = None
    /\ pc = "main_menu"
    /\ conn = Constructed(FALSE)
    /\ schema = "service"

\* a second passes
Tick ==
    /\ clock < MaxClock
    /\ clock' = clock + 1
    /\ UNCHANGED <<expenses, categories, seq, last, vin, vout, pc, conn, schema>>

DbAddExpense ==
    /\ seq < MaxId
    /\ \E e \in DbExpenses :
         LET r == add_expense(expenses, seq, clock, e) IN
         /\ expenses' = r.expenses
         /\ seq' = r.seq
         /\ last' = Call("add_expense", e, r.ret, r.exc)
    /\ UNCHANGED <<categories, clock, vin, vout, pc, conn, schema>>

DbUpdateExpense ==
    /\ \E id \in Ids, e \in DbExpenses :
         LET r == update_expense(expenses, id, e) IN
         /\ expenses' = r.expenses
         /\ last' = Call("update_expense", id, r.ret, r.exc)
    /\ UNCHANGED <<categories, seq, clock, vin, vout, pc, conn, schema>>

DbDeleteExpense ==
    /\ \E id \in Ids :
         LET r == delete_expense(expenses, id) IN
         /\ expenses' = r.expenses
         /\ last' = Call("delete_expense", id, r.ret, r.exc)
    /\ UNCHANGED <<categories, seq, clock, vin, vout, pc, conn, schema>>

DbGetExpenseById ==
    /\ \E id \in Ids :
         last' = Call("get_expense_by_id", id, get_expense_by_id(expenses, id), FALSE)
    /\ UNCHANGED <<expenses, categories, seq, clock, vin, vout, pc, conn, schema>>

DbGetExpenses ==
    /\ \E m \in {None, Some(1)}, y \in {None, Some(2024)}, c \in {None, Some(Food)} :
         \E rows \in get_expenses(expenses, m, y, c) :
            last' = Call("get_expenses", <<m, y, c>>, rows, FALSE)
    /\ UNCHANGED <<expenses, categories, seq, clock, vin, vout, pc, conn, schema>>

DbGetMonthlySummary ==
    /\ \E y \in {2024}, m \in {1, 2} :
         \E summary \in get_monthly_summary(expenses, y, m) :
            last' = Call("get_monthly_summary", <<y, m>>, summary, FALSE)
    /\ UNCHANGED <<expenses, categories, seq, clock, vin, vout, pc, conn, schema>>

SvcCreateExpense ==
    /\ seq < MaxId
    /\ \E i \in SvcInputs :
         LET r == create_expense(expenses, seq, clock, i.date_str, i.category,
                                 i.amount_str, i.description) IN
         /\ expenses' = r.expenses
         /\ seq' = r.seq
         /\ last' = Call("create_expense", i, r.ret, r.exc)
    /\ UNCHANGED <<categories, clock, vin, vout, pc, conn, schema>>

SvcUpdateExpense ==
    /\ \E id \in Ids, i \in SvcInputs :
         LET r == svc_update_expense(expenses, id, i.date_str, i.category,
                                     i.amount_str, i.description) IN
         /\ expenses' = r.expenses
         /\ last' = Call("svc_update_expense", <<id, i>>, r.ret, r.exc)
    /\ UNCHANGED <<categories, seq, clock, vin, vout, pc, conn, schema>>

SvcDeleteExpense ==
    /\ \E id \in Ids :
         LET r == svc_delete_expense(expenses, id) IN
         /\ expenses' = r.expenses
         /\ last' = Call("svc_delete_expense", id, r.ret, r.exc)
    /\ UNCHANGED <<categories, seq, clock, vin, vout, pc, conn, schema>>

SvcGetMonthlyAnalysis ==
    /\ \E y \in {2024}, m \in {1, 2} :
         \E analysis \in get_monthly_analysis(expenses, y, m) :
            last' = Call("get_monthly_analysis", <<y, m>>, analysis, FALSE)
    /\ UNCHANGED <<expenses, categories, seq, clock, vin, vout, pc, conn, schema>>

\* initialize_database called again, by DatabaseService (budget_limit None) or by
\* DatabaseConfig (budget_limit 0)
DbInitializeDatabase ==
    /\ \E budget_limit \in {None, Some(0)} :
         /\ categories' = initialize_database(categories, budget_limit)
         /\ schema' = create_table(schema, IF budget_limit = None THEN "service" ELSE "config")
         /\ last' = Call("initialize_database", budget_limit, None, FALSE)
    /\ UNCHANGED <<expenses, seq, clock, vin, vout, pc, conn>>

DbGetCategories ==
    /\ last' = Call("get_categories", None, get_all_categories(categories), FALSE)
    /\ UNCHANGED <<expenses, categories, seq, clock, vin, vout, pc, conn, schema>>

DbGetYearlySummary ==
    /\ \E y \in {2023, 2024} :
         last' = Call("get_yearly_summary", y, get_yearly_summary(expenses, y), FALSE)
    /\ UNCHANGED <<expenses, categories, seq, clock, vin, vout, pc, conn, schema>>

\* the storage layer, called directly, and the analysis on top of it
Next ==
    \/ Tick
    \/ DbAddExpense
    \/ DbUpdateExpense
    \/ DbDeleteExpense
    \/ DbGetExpenseById
    \/ DbGetExpenses
    \/ DbGetMonthlySummary
    \/ SvcGetMonthlyAnalysis

Spec == Init /\ [][Next]_vars

\* the storage layer with repeated initialization, the categories and the yearly
\* summary (nothing here reads created_at, so the clock stands still)
CategoryNext ==
    \/ DbAddExpense
    \/ DbUpdateExpense
    \/ DbDeleteExpense
    \/ DbGetExpenseById
    \/ DbGetExpenses
    \/ DbGetMonthlySummary
    \/ DbGetYearlySummary
    \/ DbInitializeDatabase
    \/ DbGetCategories

CategorySpec == Init /\ [][CategoryNext]_vars

\* connections left open are counted up to MaxOpen
MaxOpen == 2

\* the garbage collector finalizes the connections to the file that were left open,
\* at a moment of its own choosing
ConnCollect ==
    /\ ~conn.in_memory
    /\ conn.open > 0
    /\ conn' = [conn EXCEPT !.open = 0, !.locked = FALSE]
    /\ UNCHANGED <<expenses, categories, seq, clock, last, vin, vout, pc, schema>>

\* an operation called while the store fails (the file is unreadable, the database
\* is locked): nothing is written, and the connection is left to the except branch
DbStorageError ==
    /\ conn.open < MaxOpen
    /\ \E op \in StorageOps, y \in {2024}, m \in {1, 2} :
         LET r == on_storage_error(op, y, m) IN
         /\ last' = Call("storage_error",
                         [op |-> op, year |-> y, month |-> m, attempts |-> r.attempts],
                         r.ret, r.exc)
         /\ conn' = ReleaseOnError(Begin(conn), op, FALSE)
    /\ UNCHANGED <<expenses, categories, seq, clock, vin, vout, pc, schema>>

\* the storage layer on a store that may fail at any call
StorageNext ==
    \/ Tick
    \/ DbAddExpense
    \/ DbDeleteExpense
    \/ DbStorageError
    \/ ConnCollect

StorageSpec == Init /\ [][StorageNext]_vars

\* the service layer: every write goes through ExpenseService (no claim about it
\* reads created_at, so the clock stands still)
SvcNext ==
    \/ SvcCreateExpense
    \/ SvcUpdateExpense
    \/ SvcDeleteExpense
    \/ SvcGetMonthlyAnalysis

SvcSpec == Init /\ [][SvcNext]_vars

\* the dates datetime.now().date() takes in the analysis runs
Todays == {PyDate(2024, 1, 31), PyDate(2024, 2, 15), PyDate(2024, 3, 1)}
MaxMonths == 3

AnaGetYearlySummary ==
    /\ \E y \in {2023, 2024} :
         last' = Call("analysis_get_yearly_summary", y,
                      analysis_get_yearly_summary(expenses, y), FALSE)
    /\ UNCHANGED <<expenses, categories, seq, clock, vin, vout, pc, conn, schema>>

AnaGetCategoryTrends ==
    /\ \E today \in Todays, c \in {Food, Transport}, n \in 1..MaxMonths :
         last' = Call("get_category_trends",
                      [today |-> today, category |-> c, months |-> n],
                      get_category_trends(expenses, today, c, n), FALSE)
    /\ UNCHANGED <<expenses, categories, seq, clock, vin, vout, pc, conn, schema>>

\* the date ranges asked of get_spending_patterns
DateRanges ==
    {<<PyDate(2024, 1, 1), PyDate(2024, 1, 31)>>,
     <<PyDate(2024, 1, 15), PyDate(2024, 1, 15)>>,
     <<PyDate(2024, 1, 5), PyDate(2024, 2, 1)>>,
     <<PyDate(2024, 1, 16), PyDate(2024, 1, 31)>>}

AnaGetSpendingPatterns ==
    /\ \E range \in DateRanges :
         \E rows \in get_expenses(expenses, None, None, None) :
            LET r == get_spending_patterns(rows, range[1], range[2]) IN
            last' = Call("get_spending_patterns",
                         [start_date |-> range[1], end_date |-> range[2], rows |-> rows],
                         r.ret, r.exc)
    /\ UNCHANGED <<expenses, categories, seq, clock, vin, vout, pc, conn, schema>>

\* the storage layer, called directly, and AnalysisService on top of it
AnalysisNext ==
    \/ Tick
    \/ DbAddExpense
    \/ DbDeleteExpense
    \/ AnaGetYearlySummary
    \/ AnaGetCategoryTrends
    \/ AnaGetSpendingPatterns

AnalysisSpec == Init /\ [][AnalysisNext]_vars

-----------------------------------------------------------------------------
(* DatabaseService on a file or on ":memory:", with its connections *)

\* expenses handed to add_expense and update_expense, one of them without category
ConnExpenses ==
    {DbExpense(PyStr(D_2024_01_15), Food, Dec(25, 1), "lunch"),
     DbExpense(PyStr(D_2024_01_15), Transport, Dec(75, 1), "bus"),
     DbExpense(PyDate(2024, 2, 1), Transport, Dec(0 - 5, 0), "taxi"),
     [date |-> PyStr(D_2024_01_15), category |-> None, amount |-> Some(Dec(25, 1)),
      description |-> "lunch"]}

\* strings typed into create_expense
ConnInputs ==
    {SvcInput(D_2024_01_15, Food, <<"1", "0">>), SvcInput(D_2024_01_15, Food, <<"0">>)}

\* the state after DatabaseService(":memory:") or DatabaseService(path) on a fresh file
ConnInit ==
    /\ expenses = <<>>
    /\ categories = DefaultCategories
    /\ seq = 0
    /\ clock = 0
    /\ last = Call("init", None, None, FALSE)
    /\ vin = <<>>
    /\ vout = None
    /\ pc = "main_menu"
    /\ conn \in {Constructed(TRUE), Constructed(FALSE)}
    /\ schema = "service"

ConnRoom == conn.in_memory \/ conn.open < MaxOpen

ConnAddExpense ==
    /\ seq < MaxId
    /\ ConnRoom
    /\ \E e \in ConnExpenses :
         LET c == Begin(conn)
             r == add_expense(expenses, seq, clock, e)
         IN  IF WriteFails(c) \/ r.exc \/ CheckRefuses(schema, PyFloat(e.amount))
             THEN /\ UNCHANGED <<expenses, seq>>
                  /\ last' = Call("add_expense", e, None, TRUE)
                  /\ conn' = ReleaseOnError(c, "add_expense", ~WriteFails(c))
             ELSE /\ expenses' = r.expenses
                  /\ seq' = r.seq
                  /\ last' = Call("add_expense", e, r.ret, FALSE)
                  /\ conn' = Release(c)
    /\ UNCHANGED <<categories, clock, vin, vout, pc, schema>>

\* ExpenseService.create_expense: add_expense is reached once the date and the amount
\* have passed; its exception becomes a "System error" result
ConnCreateExpense ==
    /\ seq < MaxId
    /\ ConnRoom
    /\ \E i \in ConnInputs :
         LET c == Begin(conn)
             r == create_expense(expenses, seq, clock, i.date_str, i.category,
                                 i.amount_str, i.description)
             reached == strptime(i.date_str)[1] /\ ~DecLeZero(parse_amount(i.amount_str))
         IN  IF ~reached
             THEN /\ UNCHANGED <<expenses, seq>>
                  /\ last' = Call("create_expense", i, r.ret, FALSE)
                  /\ conn' = [conn EXCEPT !.opened = 0, !.closed = 0]
             ELSE IF WriteFails(c)
             THEN /\ UNCHANGED <<expenses, seq>>
                  /\ last' = Call("create_expense", i, Failure("System error"), FALSE)
                  /\ conn' = ReleaseOnError(c, "add_expense", FALSE)
             ELSE /\ expenses' = r.expenses
                  /\ seq' = r.seq
                  /\ last' = Call("create_expense", i, r.ret, FALSE)
                  /\ conn' = Release(c)
    /\ UNCHANGED <<categories, clock, vin, vout, pc, schema>>

\* update_expense: NOT NULL or CHECK refuses the UPDATE of a row that matched
ConnUpdateExpense ==
    /\ ConnRoom
    /\ \E id \in Ids, e \in ConnExpenses :
         LET c == Begin(conn)
             r == update_expense(expenses, id, e)
             refused == /\ id \in Stored(expenses)
                        /\ e.category = None \/ CheckRefuses(schema, PyFloat(e.amount))
         IN  IF WriteFails(c) \/ refused
             THEN /\ UNCHANGED expenses
                  /\ last' = Call("update_expense", id, FALSE, FALSE)
                  /\ conn' = ReleaseOnError(c, "update_expense", ~WriteFails(c))
             ELSE /\ expenses' = r.expenses
                  /\ last' = Call("update_expense", id, r.ret, FALSE)
                  /\ conn' = Release(c)
    /\ UNCHANGED <<categories, seq, clock, vin, vout, pc, schema>>

ConnDeleteExpense ==
    /\ ConnRoom
    /\ \E id \in Ids :
         LET c == Begin(conn)
             r == delete_expense(expenses, id)
         IN  IF WriteFails(c)
             THEN /\ UNCHANGED expenses
                  /\ last' = Call("delete_expense", id, FALSE, FALSE)
                  /\ conn' = ReleaseOnError(c, "delete_expense", FALSE)
             ELSE /\ expenses' = r.expenses
                  /\ last' = Call("delete_expense", id, r.ret, FALSE)
                  /\ conn' = Release(c)
    /\ UNCHANGED <<categories, seq, clock, vin, vout, pc, schema>>

\* a reading operation: its result when the tables are there, the value of its
\* except branch ("no such table") when they are not
ConnRead(op, arg, result, year, month) ==
    LET c == Begin(conn) IN
    /\ ConnRoom
    /\ IF c.tables
       THEN /\ last' = Call(op, arg, result, FALSE)
            /\ conn' = Release(c)
       ELSE /\ last' = Call(op, arg, on_storage_error(op, year, month).ret, FALSE)
            /\ conn' = ReleaseOnError(c, op, FALSE)
    /\ UNCHANGED <<expenses, categories, seq, clock, vin, vout, pc, schema>>

ConnGetExpenses ==
    \E c \in {None, Some(Food)} : \E rows \in get_expenses(expenses, None, None, c) :
        ConnRead("get_expenses", <<None, None, c>>, rows, 0, 0)

ConnGetExpenseById ==
    \E id \in Ids : ConnRead("get_expense_by_id", id, get_expense_by_id(expenses, id), 0, 0)

ConnGetAllCategories ==
    ConnRead("get_categories", None, get_all_categories(categories), 0, 0)

ConnGetMonthlySummary ==
    \E summary \in get_monthly_summary(expenses, 2024, 1) :
        ConnRead("get_monthly_summary", <<2024, 1>>, summary, 2024, 1)

ConnGetYearlySummary ==
    ConnRead("get_yearly_summary", 2024, get_yearly_summary(expenses, 2024), 2024, 0)

\* close(): an in-memory database goes with its connection
ConnClose ==
    /\ conn' = close(conn)
    /\ last' = Call("close", None, None, FALSE)
    /\ IF conn.in_memory /\ conn.shared
       THEN expenses' = <<>> /\ seq' = 0 /\ categories' = {} /\ schema' = "absent"
       ELSE UNCHANGED <<expenses, seq, categories, schema>>
    /\ UNCHANGED <<clock, vin, vout, pc>>

ConnNext ==
    \/ ConnAddExpense
    \/ ConnCreateExpense
    \/ ConnUpdateExpense
    \/ ConnDeleteExpense
    \/ ConnGetExpenses
    \/ ConnGetExpenseById
    \/ ConnGetAllCategories
    \/ ConnGetMonthlySummary
    \/ ConnGetYearlySummary
    \/ ConnClose
    \/ ConnCollect

ConnSpec == ConnInit /\ [][ConnNext]_vars

-----------------------------------------------------------------------------
(* The two initialize_database on a fresh database file *)

\* the file before any initialize_database has run
SchemaInit ==
    /\ expenses = <<>>
    /\ categories = {}
    /\ seq = 0
    /\ clock = 0
    /\ last = Call("init", None, None, FALSE)
    /\ vin = <<>>
    /\ vout = None
    /\ pc = "main_menu"
    /\ conn = NewService(FALSE)
    /\ schema = "absent"

\* DatabaseService() and DatabaseConfig().initialize_database() in any order and any
\* number of times; the operations of the DatabaseService once the tables are there
SchemaNext ==
    \/ DbInitializeDatabase
    \/ schema /= "absent" /\ ConnAddExpense
    \/ schema /= "absent" /\ ConnUpdateExpense
    \/ schema /= "absent" /\ ConnDeleteExpense
    \/ schema /= "absent" /\ ConnGetExpenseById
    \/ ConnCollect

SchemaSpec == SchemaInit /\ [][SchemaNext]_vars

-----------------------------------------------------------------------------
(* the batch helper *)

MaxBatch == 2

\* the expenses of a batch: two that can be stored, one without category and one
\* without amount
BatchExpenses ==
    {DbExpense(PyDate(2024, 1, 15), Food, Dec(25, 1), "lunch"),
     DbExpense(PyStr(D_2024_01_15), Transport, Dec(75, 1), "bus"),
     [date |-> PyStr(D_2024_01_15), category |-> None, amount |-> Some(Dec(25, 1)),
      description |-> "lunch"],
     [date |-> PyStr(D_2024_01_15), category |-> Some(Food), amount |-> None,
      description |-> "lunch"]}

Batches == UNION {[1..n -> BatchExpenses] : n \in 0..MaxBatch}

DbAddBatchExpenses ==
    /\ \E batch \in Batches :
         LET r == add_batch_expenses(expenses, seq, clock, batch) IN
         /\ r.seq <= MaxId
         /\ expenses' = r.expenses
         /\ seq' = r.seq
         /\ last' = Call("add_batch_expenses", batch, r.ret, r.exc)
    /\ UNCHANGED <<categories, clock, vin, vout, pc, conn, schema>>

\* batches among single inserts, updates and deletes (the clock stands still)
BatchNext ==
    \/ DbAddBatchExpenses
    \/ DbAddExpense
    \/ DbUpdateExpense
    \/ DbDeleteExpense

BatchSpec == Init /\ [][BatchNext]_vars

-----------------------------------------------------------------------------
(* main.py: ExpenseTrackerApp.main_menu and the menu actions *)

MenuChoices == {"1", "2", "3", "4", "5", "6", "x"}

MenuActions ==
    {"input_expense", "view_history", "view_monthly_analysis", "generate_chart_menu",
     "generate_chart_menu_nested", "export_data_menu"}

\* the if / elif chain of main_menu; any other choice prints "Pilihan tidak valid"
menu_dispatch(choice) ==
    CASE choice = "1" -> "input_expense"
      [] choice = "2" -> "view_history"
      [] choice = "3" -> "view_monthly_analysis"
      [] choice = "4" -> "generate_chart_menu"
      [] choice = "5" -> "export_data_menu"
      [] choice = "6" -> "exit"
      [] OTHER        -> "wait_for_enter"

\* what a menu action's body may raise: an Exception of the storage, chart or export
\* layer or of a formatter, a ValueError, or the user's KeyboardInterrupt
MenuExceptions == {"Exception", "ValueError", "KeyboardInterrupt"}

\* a menu action that catches ValueError only
after_raise_value_error_only(action, exception) ==
    IF exception = "ValueError" THEN "wait_for_enter" ELSE "crashed"

\* the except clauses of the menu actions: every action catches Exception (which
\* ValueError is), prints it and goes on to wait_for_enter; only input_expense catches
\* KeyboardInterrupt, which ends the process anywhere else
after_raise(action, exception) ==
    IF exception = "KeyboardInterrupt" /\ action /= "input_expense" THEN "crashed"
    ELSE "wait_for_enter"

\* wait_for_enter of generate_chart_menu called from view_monthly_analysis, which
\* then runs its own wait_for_enter
Nested(action, next) ==
    IF action = "generate_chart_menu_nested" /\ next = "wait_for_enter"
    THEN "wait_for_enter_nested" ELSE next

\* what the user types into input_expense: a date, the number of a listed category,
\* an amount
MenuInputs ==
    {SvcInput(d, c, a) :
        d \in {D_2024_01_15, D_2024_02_30},
        c \in {<<"B", "e", "l", "a", "n", "j", "a">>},
        a \in {<<"1", "0">>, <<"1", ",", "5">>, <<"0">>, TinyAmountString}}

MenuEvent(event, input) == [event |-> event, input |-> input]

MenuMainMenu ==
    /\ pc = "main_menu"
    /\ \E choice \in MenuChoices :
         /\ pc' = menu_dispatch(choice)
         /\ last' = Call("main_menu", MenuEvent(choice, None), None, FALSE)
    /\ UNCHANGED <<expenses, categories, seq, clock, vin, vout, conn, schema>>

\* input_expense: the input loops (the tuples validate_date and validate_amount return
\* are truthy, so they end at the first entry), then create_expense with
\* str(parse_amount(amount_input)) when the user confirms
MenuInputExpense ==
    /\ pc = "input_expense"
    /\ \/ /\ seq < MaxId
          /\ \E i \in MenuInputs :
               LET r == create_expense(expenses, seq, clock, i.date_str, i.category,
                                       DecStr(parse_amount(i.amount_str)), i.description)
               IN  /\ i.category \in {c.name : c \in categories}
                   /\ expenses' = r.expenses
                   /\ seq' = r.seq
                   /\ last' = Call("input_expense", MenuEvent("y", Some(i)),
                                   IF r.ret.success THEN "Expense added successfully"
                                   ELSE r.ret.error, FALSE)
          /\ pc' = "wait_for_enter"
       \/ /\ last' = Call("input_expense", MenuEvent("n", None), "Pengeluaran dibatalkan", FALSE)
          /\ pc' = "wait_for_enter"
          /\ UNCHANGED <<expenses, seq>>
       \/ /\ last' = Call("input_expense", MenuEvent("category", None), "Pilihan tidak valid", FALSE)
          /\ pc' = pc
          /\ UNCHANGED <<expenses, seq>>
       \/ \E e \in MenuExceptions :
            /\ pc' = after_raise(pc, e)
            /\ last' = Call("input_expense", MenuEvent(e, None), "Error", pc' = "crashed")
            /\ UNCHANGED <<expenses, seq>>
    /\ UNCHANGED <<categories, clock, vin, vout, conn, schema>>

\* view_history: get_expense_history, then the table and the optional export
MenuViewHistory ==
    /\ pc = "view_history"
    /\ \/ \E y \in {None, Some(2024)} : \E rows \in get_expenses(expenses, None, y, None) :
            /\ last' = Call("view_history", MenuEvent("shown", None),
                            IF rows = <<>> THEN "Tidak ada data pengeluaran"
                            ELSE "Total transaksi", FALSE)
            /\ pc' = "wait_for_enter"
       \/ \E e \in MenuExceptions :
            /\ pc' = after_raise(pc, e)
            /\ last' = Call("view_history", MenuEvent(e, None), "Error", pc' = "crashed")
    /\ UNCHANGED <<expenses, categories, seq, clock, vin, vout, conn, schema>>

\* view_monthly_analysis: the analysis, then generate_chart_menu when asked for
MenuViewMonthlyAnalysis ==
    /\ pc = "view_monthly_analysis"
    /\ \/ \E m \in {1, 2}, chart \in BOOLEAN :
            \E analysis \in get_monthly_analysis(expenses, 2024, m) :
               /\ last' = Call("view_monthly_analysis", MenuEvent("shown", None),
                               "Analisis Pengeluaran", FALSE)
               /\ pc' = IF chart THEN "generate_chart_menu_nested" ELSE "wait_for_enter"
       \/ \E e \in MenuExceptions :
            /\ pc' = after_raise(pc, e)
            /\ last' = Call("view_monthly_analysis", MenuEvent(e, None), "Error", pc' = "crashed")
    /\ UNCHANGED <<expenses, categories, seq, clock, vin, vout, conn, schema>>

\* generate_chart_menu, from the main menu or from view_monthly_analysis
MenuGenerateChart ==
    /\ pc \in {"generate_chart_menu", "generate_chart_menu_nested"}
    /\ \/ \E m \in {1, 2} : \E analysis \in get_monthly_analysis(expenses, 2024, m) :
            /\ last' = Call("generate_chart_menu", MenuEvent("shown", None),
                            IF analysis.category_breakdown = <<>>
                            THEN "Tidak ada data untuk generate chart"
                            ELSE "Chart berhasil digenerate", FALSE)
            /\ pc' = Nested(pc, "wait_for_enter")
       \/ \E e \in MenuExceptions :
            /\ pc' = Nested(pc, after_raise(pc, e))
            /\ last' = Call("generate_chart_menu", MenuEvent(e, None), "Error", pc' = "crashed")
    /\ UNCHANGED <<expenses, categories, seq, clock, vin, vout, conn, schema>>

\* export_data_menu: export_transactions or export_monthly_report_menu
MenuExportData ==
    /\ pc = "export_data_menu"
    /\ \/ \E choice \in {"1", "2", "x"} : \E rows \in get_expenses(expenses, None, None, None) :
            /\ last' = Call("export_data_menu", MenuEvent(choice, None),
                            IF choice = "x" THEN "Pilihan tidak valid"
                            ELSE IF rows = <<>> THEN "Tidak ada data untuk diexport"
                            ELSE "Data diexport", FALSE)
            /\ pc' = "wait_for_enter"
       \/ \E e \in MenuExceptions :
            /\ pc' = after_raise(pc, e)
            /\ last' = Call("export_data_menu", MenuEvent(e, None), "Error", pc' = "crashed")
    /\ UNCHANGED <<expenses, categories, seq, clock, vin, vout, conn, schema>>

\* wait_for_enter: the user presses Enter
MenuWaitForEnter ==
    /\ pc \in {"wait_for_enter", "wait_for_enter_nested"}
    /\ pc' = IF pc = "wait_for_enter_nested" THEN "wait_for_enter" ELSE "main_menu"
    /\ UNCHANGED <<expenses, categories, seq, clock, last, vin, vout, conn, schema>>

MenuNext ==
    \/ MenuMainMenu
    \/ MenuInputExpense
    \/ MenuViewHistory
    \/ MenuViewMonthlyAnalysis
    \/ MenuGenerateChart
    \/ MenuExportData
    \/ MenuWaitForEnter

MenuSpec == Init /\ [][MenuNext]_vars

\* amounts written with a group of three digits after the separator
ParseExamples ==
    {<<"2", "5", ".", "5", "0", "0">>,
     <<"1", ".", "0", "0", "0">>,
     <<"1", ",", "0", "0", "0">>,
     <<"1", ",", "5", "0", "0">>,
     <<"0", ".", "0", "0", "1">>}

\* validate_amount and parse_amount applied to one amount string
AmountInit ==
    /\ expenses = <<>>
    /\ categories = DefaultCategories
    /\ seq = 0
    /\ clock = 0
    /\ last = Call("init", None, None, FALSE)
    /\ vin \in AmountStrings \cup AmountExamples \cup ParseExamples
    /\ vout = None
    /\ pc = "main_menu"
    /\ conn = Constructed(FALSE)
    /\ schema = "service"

RunValidateAmount ==
    /\ vout = None
    /\ vout' = Some(validate_amount(vin))
    /\ UNCHANGED <<expenses, categories, seq, clock, last, vin, pc, conn, schema>>

RunParseAmount ==
    /\ last.op = "init"
    /\ last' = Call("parse_amount", vin, parse_amount(vin), FALSE)
    /\ UNCHANGED <<expenses, categories, seq, clock, vin, vout, pc, conn, schema>>

AmountNext ==
    \/ RunValidateAmount
    \/ RunParseAmount

AmountSpec == AmountInit /\ [][AmountNext]_vars

\* an amount string typed into create_expense with a valid date, on an empty store
CreateInit ==
    /\ expenses = <<>>
    /\ categories = DefaultCategories
    /\ seq = 0
    /\ clock = 0
    /\ last = Call("init", None, None, FALSE)
    /\ vin \in AmountStrings \cup AmountExamples \cup ParseExamples \cup {TinyAmountString}
    /\ vout = None
    /\ pc = "main_menu"
    /\ conn = Constructed(FALSE)
    /\ schema = "service"

RunCreateExpense ==
    /\ last.op = "init"
    /\ LET r == create_expense(expenses, seq, clock, D_2024_01_15, Food, vin, "") IN
       /\ expenses' = r.expenses
       /\ seq' = r.seq
       /\ last' = Call("create_expense", vin, r.ret, r.exc)
    /\ UNCHANGED <<categories, clock, vin, vout, pc, conn, schema>>

CreateNext ==
    \/ RunValidateAmount
    \/ RunCreateExpense

CreateSpec == CreateInit /\ [][CreateNext]_vars

-----------------------------------------------------------------------------
(* Properties *)

\* a zero-padded YYYY-MM-DD string of a real calendar date
IsIsoCalendarDate(s) ==
    /\ Len(s) = 10
    /\ s[5] = "-" /\ s[8] = "-"
    /\ \A i \in {1, 2, 3, 4, 6, 7, 9, 10} : IsDigit(s[i])
    /\ LET y == DigitsToInt(SubSeq(s, 1, 4))
           m == DigitsToInt(SubSeq(s, 6, 7))
           d == DigitsToInt(SubSeq(s, 9, 10))
       IN  y >= 1 /\ m \in 1..12 /\ d >= 1 /\ d <= DaysInMonth(y, m)

\* the calendar year and month of a stored date, None when it is no date at all
YearOf(s) == IF strptime(s)[1] THEN Some(strptime(s)[2][1].y) ELSE None
MonthOf(s) == IF strptime(s)[1] THEN Some(strptime(s)[2][1].m) ELSE None

\* C1: after any sequence of ExpenseService create / update / delete calls every
\* stored expense has amount > 0.
C1_AmountPositive == \A id \in Stored(expenses) : expenses[id].amount.num > 0

\* C2: an expense with a YYYY-MM-DD date (string or date object), a category, an
\* amount > 0 and a description, once added, is fetched by id with the date (a date
\* object by its ISO string), category, amount and description that were written.
C2_Written(e) ==
    /\ e.date.kind = "date" \/ (e.date.kind = "str" /\ IsIsoCalendarDate(e.date.s))
    /\ e.category /= None
    /\ e.amount /= None /\ e.amount[1].num > 0
C2_RoundTrip ==
    (last.op = "add_expense" /\ ~last.exc /\ C2_Written(last.arg)) =>
        LET got == get_expense_by_id(expenses, last.ret[1]) IN
        /\ got /= None
        /\ got[1].date = (IF last.arg.date.kind = "date" THEN isoformat(last.arg.date)
                          ELSE last.arg.date.s)
        /\ got[1].category = last.arg.category[1]
        /\ DecEq(got[1].amount, last.arg.amount[1])
        /\ got[1].description = last.arg.description

\* C2, second half: the record fetched for an id stays the same over every step
\* that is not update_expense(id, ..) or delete_expense(id).
C2_Stays ==
    [][\A id \in Stored(expenses) :
          get_expense_by_id(expenses', id) /= get_expense_by_id(expenses, id)
          => (last'.op \in {"update_expense", "delete_expense"} /\ last'.arg = id)]_vars

\* C3: for an id that is not stored, delete_expense and update_expense return False
\* and get_expense_by_id returns None; none raises, and the expenses and categories
\* tables are as before the call.
C3_Values ==
    DbExpenses \cup {[date |-> PyNone, category |-> None, amount |-> None, description |-> ""]}
C4_Invalid(i) == ~strptime(i.date_str)[1] \/ ~validate_amount(i.amount_str)[1]

\* C4: create_expense and update_expense called with a date that does not parse or an
\* amount that validate_amount rejects return success = False with an error message,
\* do not raise and leave the expenses table as it was.
C4_ValidationFailure ==
    \A i \in SvcInputs : C4_Invalid(i) =>
        /\ LET r == create_expense(expenses, seq, clock, i.date_str, i.category,
                                   i.amount_str, i.description)
           IN  /\ r.ret.success = FALSE /\ "error" \in DOMAIN r.ret /\ r.ret.error /= ""
               /\ ~r.exc
               /\ r.expenses = expenses
        /\ \A id \in 1..(MaxId + 1) :
              LET r == svc_update_expense(expenses, id, i.date_str, i.category,
                                          i.amount_str, i.description)
              IN  /\ r.ret.success = FALSE /\ "error" \in DOMAIN r.ret /\ r.ret.error /= ""
                  /\ ~r.exc
                  /\ r.expenses = expenses

\* C4 witness: create_expense has just refused an input with an amount that
\* validate_amount rejects, while an expense is stored
C4_Witness ==
    /\ last.op = "create_expense"
    /\ ~validate_amount(last.arg.amount_str)[1]
    /\ last.ret.success = FALSE
    /\ Stored(expenses) /= {}

\* C5: every stored expense has its date stored as a zero-padded 10-character
\* YYYY-MM-DD string of a real calendar date.
C5_IsoDates == \A id \in Stored(expenses) : IsIsoCalendarDate(expenses[id].date)

\* the stored expenses a query for (month, year, category) is to return
C6_Expected(month, year, category) ==
    {id \in Stored(expenses) :
        /\ year /= None => YearOf(expenses[id].date) = year
        /\ (month /= None /\ year /= None) => MonthOf(expenses[id].date) = month
        /\ category /= None => expenses[id].category = category[1]}

\* C6: get_expenses(month, year, category) returns exactly the stored expenses, each
\* once, whose year is the given year, whose month is the given month when a year is
\* given too, and whose category is the given category.
C6_ExactlyTheMatching ==
    \A month \in QueryMonths, year \in QueryYears, category \in QueryCategories :
        \A rows \in get_expenses(expenses, month, year, category) :
            /\ {rows[k].id : k \in 1..Len(rows)} = C6_Expected(month, year, category)
            /\ Len(rows) = Cardinality(C6_Expected(month, year, category))

\* C7: get_expenses returns later dates first and, of two expenses with the same date,
\* the one added later first.
C7_NewestFirst ==
    \A month \in QueryMonths, year \in QueryYears, category \in QueryCategories :
        \A rows \in get_expenses(expenses, month, year, category) :
            \A i, j \in 1..Len(rows) : i < j =>
                /\ (IsIsoCalendarDate(rows[i].date) /\ IsIsoCalendarDate(rows[j].date))
                      => ~TextLess(rows[i].date, rows[j].date)
                /\ rows[i].date = rows[j].date => rows[i].id > rows[j].id

\* the stored expenses dated in the month
C8_Dated(year, month) ==
    {id \in Stored(expenses) : /\ YearOf(expenses[id].date) = Some(year)
                               /\ MonthOf(expenses[id].date) = Some(month)}

RECURSIVE C8_SumTotals(_)
C8_SumTotals(breakdown) ==
    IF breakdown = <<>> THEN DecZero
    ELSE DecAdd(Head(breakdown).total, C8_SumTotals(Tail(breakdown)))

\* C8: get_monthly_summary gives as total_expenses the sum of the amounts of the
\* expenses dated in the month, and one breakdown entry per category with an expense in
\* the month, holding that category's sum, in non-increasing order of total, the totals
\* adding up to total_expenses; a month without expenses gives 0 and no entries.
C8_MonthlySummary ==
    \A year \in {2023, 2024}, month \in 1..3 :
        \A summary \in get_monthly_summary(expenses, year, month) :
            LET ids == C8_Dated(year, month)
                b   == summary.category_breakdown
            IN  /\ DecEq(summary.total_expenses, SumAmounts(expenses, ids))
                /\ {b[k].category : k \in 1..Len(b)} = {expenses[id].category : id \in ids}
                /\ \A k, l \in 1..Len(b) : k /= l => b[k].category /= b[l].category
                /\ \A k \in 1..Len(b) :
                      DecEq(b[k].total,
                            SumAmounts(expenses, {id \in ids : expenses[id].category = b[k].category}))
                /\ \A k, l \in 1..Len(b) : k < l => ~DecLess(b[k].total, b[l].total)
                /\ DecEq(C8_SumTotals(b), summary.total_expenses)
                /\ ids = {} => (summary.total_expenses.num = 0 /\ b = <<>>)

\* the sum of the percentages of a breakdown, as the exact fraction num / den
RECURSIVE C9_SumPercentages(_)
C9_SumPercentages(breakdown) ==
    IF breakdown = <<>> THEN [num |-> 0, den |-> 1]
    ELSE LET p    == Head(breakdown).percentage
             rest == C9_SumPercentages(Tail(breakdown))
         IN  [num |-> p.num * rest.den + rest.num * p.den, den |-> p.den * rest.den]

\* C9: whenever get_monthly_analysis reports total_expenses > 0 the percentages of its
\* category_breakdown add up to exactly 100.
C9_PercentagesSumTo100 ==
    \A year \in {2023, 2024}, month \in 1..3 :
        \A analysis \in get_monthly_analysis(expenses, year, month) :
            analysis.total_expenses.num > 0 =>
                LET sum == C9_SumPercentages(analysis.category_breakdown)
                IN  sum.den /= 0 /\ sum.num = 100 * sum.den

\* C9 witness: get_monthly_analysis has just reported a positive total split over two
\* categories
C9_Witness ==
    /\ last.op = "get_monthly_analysis"
    /\ last.ret.total_expenses.num > 0
    /\ Len(last.ret.category_breakdown) = 2
    /\ \A k \in 1..2 : last.ret.category_breakdown[k].percentage.num > 0

\* validity of an amount string by the rule: what is left after deleting every
\* character other than digits, '.', ',' and '-' is non-empty, has at most one '.' or
\* ',' in all, no '-' other than a leading one, and denotes a number above 0
C10_Valid(s) ==
    LET r == SelectSeq(s, LAMBDA c : IsDigit(c) \/ c \in {".", ",", "-"})
        separators == {i \in 1..Len(r) : r[i] \in {".", ","}}
        minuses    == {i \in 1..Len(r) : r[i] = "-"}
    IN  /\ r /= <<>>
        /\ Cardinality(separators) <= 1
        /\ minuses \subseteq {1}
        /\ \E i \in 1..Len(r) : IsDigit(r[i])
        /\ minuses = {}
        /\ \E i \in 1..Len(r) : IsDigit(r[i]) /\ r[i] /= "0"

\* C10: validate_amount reports valid exactly for the strings valid by the rule; it
\* rejects "0", "-100", "", "1.000.000", "1,000,000" and "10-00" and accepts "50000",
\* "50,000" and "Rp 100.000".
C10_ValidateAmount ==
    /\ vout /= None => (vout[1][1] <=> C10_Valid(vin))
    /\ \A s \in AmountExamples :
          validate_amount(s)[1] <=> s \in {<<"5", "0", "0", "0", "0">>,
                                           <<"5", "0", ",", "0", "0", "0">>,
                                           <<"R", "p", " ", "1", "0", "0", ".", "0", "0", "0">>}

\* C10 witness: validate_amount has accepted "Rp 100.000"
C10_Witness ==
    /\ vout /= None /\ vout[1][1]
    /\ vin = <<"R", "p", " ", "1", "0", "0", ".", "0", "0", "0">>

\* C11: the value validate_date and validate_amount return is truthy for every valid
\* string and falsy for every invalid one, so `if not validate_x(s)` is taken for
\* exactly the invalid strings.
C11_FlagIsVerdict ==
    vout /= None =>
        /\ Truthy(vout[1]) <=> C10_Valid(vin)
        /\ \A d \in {D_2024_01_15, D_2024_1_5, D_2024_02_30, <<>>} :
              Truthy(validate_date(d)) <=> strptime(d)[1]

\* C12: parse_amount does not raise and returns a number: 0 when the cleaned string is
\* empty or cannot be parsed, and the amount validate_amount computed whenever
\* validate_amount accepts the string.
C12_ParseAgreesWithValidate ==
    last.op = "parse_amount" =>
        LET cleaned == CleanAmount(vin) IN
        /\ ~last.exc
        /\ last.ret.num \in Int /\ last.ret.frac \in Nat
        /\ (cleaned = <<>> \/ ~DecimalOf(CommaToDot(cleaned))[1]) => last.ret = DecZero
        /\ validate_amount(vin)[1] => last.ret = validate_amount(vin)[2][1]

\* C12 witness: parse_amount has returned the amount of a string validate_amount
\* accepts, "50,000"
C12_Witness ==
    /\ last.op = "parse_amount"
    /\ vin = <<"5", "0", ",", "0", "0", "0">>
    /\ validate_amount(vin)[1]
    /\ last.ret.num > 0

\* the cleaned amount is digits, one '.' or ',', and a group of three digits
C13_Grouped(s) ==
    LET r == CleanAmount(s) IN
    /\ Len(r) >= 5
    /\ r[Len(r) - 3] \in {".", ","}
    /\ \A i \in (1..Len(r)) \ {Len(r) - 3} : IsDigit(r[i])

\* the integer its digits spell
C13_Digits(s) == DigitsToInt(SelectSeq(s, LAMBDA c : IsDigit(c)))

C15_InitializeIdempotent ==
    [][last'.op = "initialize_database" =>
          /\ ~last'.exc
          /\ expenses' = expenses
          /\ categories' = categories
          /\ \A b1, b2 \in {None, Some(0)} :
                initialize_database(initialize_database(categories, b1), b2) = categories]_vars

\* C15 witness: DatabaseConfig's initialize_database has just run on a database that
\* holds an expense
C15_Witness ==
    /\ last.op = "initialize_database" /\ last.arg = Some(0)
    /\ Stored(expenses) /= {}

\* C16: the categories table holds each of the eight default names exactly once, no two
\* categories share a name, and get_categories returns all categories sorted by name.
C16_Categories ==
    LET listed == get_all_categories(categories) IN
    /\ Cardinality(DefaultCategoryNames) = 8
    /\ \A n \in DefaultCategoryNames : Cardinality({c \in categories : c.name = n}) = 1
    /\ \A c, d \in categories : c.name = d.name => c = d
    /\ {listed[k] : k \in 1..Len(listed)} = categories
    /\ Len(listed) = Cardinality(categories)
    /\ \A k, l \in 1..Len(listed) : k < l => TextLess(listed[k].name, listed[l].name)
    /\ last.op = "get_categories" => last.ret = listed

\* C16 witness: get_categories has just listed the eight categories, "Belanja" first
\* and "Transportasi" last, after expenses were added
C16_Witness ==
    /\ last.op = "get_categories"
    /\ Len(last.ret) = 8
    /\ last.ret[1].name = <<"B", "e", "l", "a", "n", "j", "a">>
    /\ last.ret[8].name[2] = "r"
    /\ Stored(expenses) /= {}

\* the stored expenses dated in the year
C17_Dated(year) == {id \in Stored(expenses) : YearOf(expenses[id].date) = Some(year)}

RECURSIVE C17_SumTotals(_)
C17_SumTotals(breakdown) ==
    IF breakdown = <<>> THEN DecZero
    ELSE DecAdd(Head(breakdown).total, C17_SumTotals(Tail(breakdown)))

RECURSIVE C17_SumCounts(_)
C17_SumCounts(breakdown) ==
    IF breakdown = <<>> THEN 0
    ELSE Head(breakdown).count + C17_SumCounts(Tail(breakdown))

\* C17: get_yearly_summary gives as total_expenses the sum of the amounts of the
\* expenses dated in the year, as transaction_count their number, and one breakdown
\* entry per month with an expense, in ascending month order, the totals and counts
\* adding up to total_expenses and transaction_count; a year without expenses gives 0,
\* 0 and no entries.
C17_YearlySummary ==
    \A year \in {2023, 2024} :
        LET summary == get_yearly_summary(expenses, year)
            ids     == C17_Dated(year)
            b       == summary.monthly_breakdown
        IN  /\ DecEq(summary.total_expenses, SumAmounts(expenses, ids))
            /\ summary.transaction_count = Cardinality(ids)
            /\ {b[k].month : k \in 1..Len(b)} = {Pad2(MonthOf(expenses[id].date)[1]) : id \in ids}
            /\ \A k, l \in 1..Len(b) : k < l => TextLess(b[k].month, b[l].month)
            /\ DecEq(C17_SumTotals(b), summary.total_expenses)
            /\ C17_SumCounts(b) = summary.transaction_count
            /\ ids = {} => (summary.total_expenses.num = 0 /\ summary.transaction_count = 0
                            /\ b = <<>>)

\* C18: update_expense(id, v) on a stored id replaces the row's date, category, amount
\* and description by v's and leaves its id and created_at and every other row as they
\* were; delete_expense(id) on a stored id removes that row only, after which
\* get_expense_by_id(id) is None and a second delete_expense(id) returns False.
C18_LifecycleFrame ==
    \A id \in Stored(expenses) :
        /\ \A v \in DbExpenses :
              LET r == update_expense(expenses, id, v) IN
              /\ r.ret = TRUE /\ ~r.exc
              /\ Stored(r.expenses) = Stored(expenses)
              /\ r.expenses[id].date = (IF v.date.kind = "date" THEN isoformat(v.date)
                                        ELSE v.date.s)
              /\ r.expenses[id].category = v.category[1]
              /\ DecEq(r.expenses[id].amount, v.amount[1])
              /\ r.expenses[id].description = v.description
              /\ r.expenses[id].created_at = expenses[id].created_at
              /\ \A j \in Stored(expenses) \ {id} : r.expenses[j] = expenses[j]
        /\ LET r == delete_expense(expenses, id) IN
           /\ r.ret = TRUE /\ ~r.exc
           /\ Stored(r.expenses) = Stored(expenses) \ {id}
           /\ \A j \in Stored(expenses) \ {id} : r.expenses[j] = expenses[j]
           /\ get_expense_by_id(r.expenses, id) = None
           /\ delete_expense(r.expenses, id).ret = FALSE

\* what the operation returns, without any failure, on a database that holds no
\* expense and when asked for an id, a month or a year that has none
C14_Quiet(op, year, month) ==
    CASE op = "get_expenses"        -> CHOOSE rows \in get_expenses(<<>>, None, None, None) : TRUE
      [] op = "get_expense_by_id"   -> get_expense_by_id(expenses, MaxId + 1)
      [] op = "update_expense"      ->
            update_expense(expenses, MaxId + 1, CHOOSE v \in DbExpenses : TRUE).ret
      [] op = "delete_expense"      -> delete_expense(expenses, MaxId + 1).ret
      [] op = "get_categories"      -> get_all_categories({})
      [] op = "get_monthly_summary" ->
            CHOOSE summary \in get_monthly_summary(<<>>, year, month) : TRUE
      [] op = "get_yearly_summary"  -> get_yearly_summary(<<>>, year)
      [] OTHER                      -> None

\* C14: an operation that meets a failure of the store is attempted once and gives its
\* caller an error: it raises, or returns something other than the empty list, the
\* not-found None / False or the zero summary it returns without any failure.
C14_FailureSurfaced ==
    last.op = "storage_error" =>
        /\ last.arg.attempts = 1
        /\ last.exc \/ last.ret /= C14_Quiet(last.arg.op, last.arg.year, last.arg.month)

\* the category is empty or whitespace only
C19_Blank(category) == \A k \in 1..Len(category) : category[k] = " "

\* C19: create_expense and update_expense reject an empty or whitespace-only category
\* with success = False and without writing, so no stored expense has such a category.
C19_CategoryRequired ==
    /\ \A id \in Stored(expenses) : ~C19_Blank(expenses[id].category)
    /\ (last.op = "create_expense" /\ C19_Blank(last.arg.category))
          => last.ret.success = FALSE
    /\ (last.op = "svc_update_expense" /\ C19_Blank(last.arg[2].category))
          => last.ret.success = FALSE

\* C20: a menu action that meets a validation failure or an exception of the storage,
\* chart or export layer ends with a message and goes on to wait_for_enter, from where
\* control returns to the main-menu prompt; the loop ends only on choice 6.
C20_MenuSurvives ==
    [][/\ (pc \in MenuActions /\ pc' /= pc /\ last'.arg.event /= "KeyboardInterrupt")
            => /\ pc' \in {"wait_for_enter", "wait_for_enter_nested", "generate_chart_menu_nested"}
               /\ last'.op /= "main_menu" /\ last'.ret /= "" /\ ~last'.exc
       /\ (pc' = "crashed" /\ pc /= "crashed") => last'.arg.event = "KeyboardInterrupt"
       /\ (pc' = "exit" /\ pc /= "exit")
            => (pc = "main_menu" /\ last'.op = "main_menu" /\ last'.arg.event = "6")
       /\ pc = "wait_for_enter" => pc' = "main_menu"
       /\ pc = "wait_for_enter_nested" => pc' = "wait_for_enter"
       /\ pc \in {"exit", "crashed"} => pc' = pc]_vars

\* C20 witness: back at the main-menu prompt after view_history met an exception,
\* with an expense stored
C20_Witness ==
    /\ pc = "main_menu"
    /\ last.op = "view_history" /\ last.arg.event = "Exception"
    /\ Stored(expenses) /= {}

\* C21: every entry of get_monthly_analysis(year, month).category_breakdown carries a
\* percentage: total / total_expenses * 100 when total_expenses is not zero, 0 when it
\* is zero.
C21_PercentageOnEveryEntry ==
    \A year \in {2023, 2024}, month \in 1..3 :
        \A analysis \in get_monthly_analysis(expenses, year, month) :
            \A k \in 1..Len(analysis.category_breakdown) :
                LET item == analysis.category_breakdown[k] IN
                /\ "percentage" \in DOMAIN item
                /\ IF analysis.total_expenses.num /= 0
                   THEN item.percentage = Percentage(item.total, analysis.total_expenses)
                   ELSE item.percentage.num = 0

\* the monthly-summary total of a month: the sum over the rows SQLite dates in it
C22_Total(year, month) == SumAmounts(expenses, InMonth(expenses, year, month))

\* C22: AnalysisService.get_yearly_summary(year) keeps, in ascending month order,
\* exactly the months whose monthly-summary total is not zero; total_expenses is the
\* sum of their totals, monthly_average that sum divided by their number (0 when there
\* is none), most_expensive_month and least_expensive_month the kept entries of the
\* largest and of the smallest total (the earliest month on a tie, None when none is
\* kept).
C22_YearlyAnalysis ==
    \A year \in {2023, 2024} :
        LET r      == analysis_get_yearly_summary(expenses, year)
            b      == r.monthly_breakdown
            months == Ascending({m \in 1..12 : C22_Total(year, m).num /= 0})
        IN  /\ [k \in 1..Len(b) |-> b[k].month] = months
            /\ \A k \in 1..Len(b) : DecEq(b[k].total, C22_Total(year, b[k].month))
            /\ DecEq(r.total_expenses, SumOfTotals(b))
            /\ IF b = <<>>
               THEN /\ r.monthly_average.num.num = 0
                    /\ r.most_expensive_month = None
                    /\ r.least_expensive_month = None
               ELSE /\ r.monthly_average = Quotient(r.total_expenses, Len(b))
                    /\ \E k \in 1..Len(b) :
                          /\ r.most_expensive_month = Some(b[k])
                          /\ \A j \in 1..Len(b) : ~DecLess(b[k].total, b[j].total)
                          /\ \A j \in 1..(k - 1) : DecLess(b[j].total, b[k].total)
                    /\ \E k \in 1..Len(b) :
                          /\ r.least_expensive_month = Some(b[k])
                          /\ \A j \in 1..Len(b) : ~DecLess(b[j].total, b[k].total)
                          /\ \A j \in 1..(k - 1) : DecLess(b[k].total, b[j].total)

\* C22 without rows of negative amount (CHECK (amount >= 0) in force)
C22_NonNegative ==
    (\A id \in Stored(expenses) : expenses[id].amount.num >= 0) => C22_YearlyAnalysis

\* the (year, month) pairs of the last n calendar months, the month of d included
RECURSIVE C23_LastMonths(_, _, _)
C23_LastMonths(year, month, n) ==
    IF n = 0 THEN {}
    ELSE {<<year, month>>}
         \cup C23_LastMonths(get_previous_month(year, month)[1],
                             get_previous_month(year, month)[2], n - 1)

\* C23: get_category_trends(category, N) returns N entries, one for each of the last N
\* calendar months (no month twice, none left out), each with the category's total of
\* that month (0 when absent) and its percentage of the month's total (0 when that
\* total is not positive).
C23_CalendarMonths ==
    last.op = "get_category_trends" =>
        LET trends == last.ret
            today  == last.arg.today
            pairs  == {<<trends[k].year, trends[k].month>> : k \in 1..Len(trends)}
        IN  /\ Len(trends) = last.arg.months
            /\ Cardinality(pairs) = last.arg.months
            /\ pairs = C23_LastMonths(today.y, today.m, last.arg.months)
            /\ \A k \in 1..Len(trends) :
                 LET ids   == InMonth(expenses, trends[k].year, trends[k].month)
                     mine  == {i \in ids : expenses[i].category = last.arg.category}
                     total == SumAmounts(expenses, ids)
                 IN  /\ DecEq(trends[k].total, SumAmounts(expenses, mine))
                     /\ IF total.num > 0
                        THEN trends[k].percentage = Percentage(trends[k].total, total)
                        ELSE trends[k].percentage.num = 0

\* C23 for a single month: the one entry is the current month's
C23_CurrentMonth ==
    (last.op = "get_category_trends" /\ last.arg.months = 1) => C23_CalendarMonths

\* the stored expenses dated from start_date to end_date, both included
C24_InRange(start_date, end_date) ==
    {id \in Stored(expenses) :
        /\ strptime(expenses[id].date)[1]
        /\ DateLe(start_date, strptime(expenses[id].date)[2][1])
        /\ DateLe(strptime(expenses[id].date)[2][1], end_date)}

C24_WeekdayOf(id) == Weekday(strptime(expenses[id].date)[2][1])

\* the sum of the shares of the categories cats, as the exact fraction num / den
RECURSIVE C24_SumShares(_, _)
C24_SumShares(distribution, cats) ==
    IF cats = {} THEN [num |-> 0, den |-> 1]
    ELSE LET c    == CHOOSE x \in cats : TRUE
             rest == C24_SumShares(distribution, cats \ {c})
         IN  [num |-> distribution[c].num * rest.den + rest.num * distribution[c].den,
              den |-> distribution[c].den * rest.den]

\* C24: get_spending_patterns(start, end) reports on exactly the stored expenses dated
\* from start to end inclusive: their number, the sum of their amounts, the sum divided
\* by the number, the weekday of the highest count (on a tie the one met first in the
\* order get_expenses gave), and each category's share in percent, the shares adding
\* up to 100; when no expense is in the range it returns only a message.
C24_SpendingPatterns ==
    (last.op = "get_spending_patterns" /\ ~last.exc) =>
        LET ids    == C24_InRange(last.arg.start_date, last.arg.end_date)
            rows   == last.arg.rows
            r      == last.ret[1]
            total  == SumAmounts(expenses, ids)
            cats   == {expenses[id].category : id \in ids}
            n(d)   == Cardinality({id \in ids : C24_WeekdayOf(id) = d})
            met(d) == CHOOSE k \in 1..Len(rows) :
                        /\ rows[k].id \in ids /\ C24_WeekdayOf(rows[k].id) = d
                        /\ \A j \in 1..(k - 1) :
                              ~(rows[j].id \in ids /\ C24_WeekdayOf(rows[j].id) = d)
            days   == {C24_WeekdayOf(id) : id \in ids}
        IN  IF ids = {} THEN DOMAIN r = {"message"}
            ELSE /\ "message" \notin DOMAIN r
                 /\ r.transaction_count = Cardinality(ids)
                 /\ DecEq(r.total_expenses, total)
                 /\ r.average_per_transaction = Quotient(total, Cardinality(ids))
                 /\ r.most_common_day \in days
                 /\ \A e \in days :
                       \/ n(e) < n(r.most_common_day)
                       \/ n(e) = n(r.most_common_day) /\ met(r.most_common_day) <= met(e)
                 /\ DOMAIN r.category_distribution = cats
                 /\ \A c \in cats :
                       r.category_distribution[c] =
                           Percentage(SumAmounts(expenses, {id \in ids : expenses[id].category = c}),
                                      total)
                 /\ LET sum == C24_SumShares(r.category_distribution, cats)
                    IN  sum.den /= 0 /\ sum.num = 100 * sum.den

\* C24 on databases whose amounts are all positive
C24_PositiveAmounts ==
    (\A id \in Stored(expenses) : expenses[id].amount.num > 0) => C24_SpendingPatterns

\* C25: on DatabaseService(":memory:") every operation before close() runs on the one
\* connection opened at construction and none closes it; an expense added by
\* add_expense or create_expense is returned by get_expense_by_id and get_expenses
\* until it is deleted.
C25_MemoryConnection ==
    [][(conn'.in_memory /\ ~conn'.was_closed) =>
          /\ conn'.shared /\ conn'.tables
          /\ conn'.open = 1 /\ conn'.opened = 0 /\ conn'.closed = 0
          /\ last'.op /= "delete_expense" => \A id \in Stored(expenses) : id \in Stored(expenses')
          /\ (last'.op \in {"add_expense", "create_expense"} /\ seq' /= seq)
                => seq' \in Stored(expenses')
          /\ (last'.op = "get_expense_by_id" /\ last'.arg \in Stored(expenses))
                => last'.ret = Some(RowDict(expenses, last'.arg))
          /\ (last'.op = "get_expenses" /\ last'.arg[3] = None)
                => {last'.ret[k].id : k \in 1..Len(last'.ret)} = Stored(expenses)]_vars

\* C25 witness: on the in-memory database, after one of two added expenses was
\* deleted, get_expenses has just returned the other
C25_Witness ==
    /\ conn.in_memory /\ ~conn.was_closed
    /\ last.op = "get_expenses"
    /\ seq = 2
    /\ Len(last.ret) = 1
    /\ Cardinality(Stored(expenses)) = 1

\* C26: on a database file every operation opens exactly one connection and has
\* closed it when it returns or raises; between two operations no connection is open.
C26_FileConnections ==
    ~conn.in_memory =>
        /\ conn.open = 0
        /\ last.op \in StorageOps => (conn.opened = 1 /\ conn.closed = 1)

\* can the row be inserted
C27_Insertable(e) == e.category /= None /\ e.amount /= None

\* C27: add_batch_expenses either inserts every expense of the batch and returns the
\* new ids in input order, or, when the insert of any row fails, raises and leaves the
\* expenses table exactly as it was before the call.
C27_AllOrNothing ==
    [][last'.op = "add_batch_expenses" =>
          LET batch == last'.arg IN
          IF \A k \in 1..Len(batch) : C27_Insertable(batch[k])
          THEN /\ ~last'.exc
               /\ last'.ret = Some([k \in 1..Len(batch) |-> seq + k])
               /\ Stored(expenses') = Stored(expenses) \cup {seq + k : k \in 1..Len(batch)}
               /\ \A id \in Stored(expenses) : expenses'[id] = expenses[id]
               /\ \A k \in 1..Len(batch) :
                     /\ expenses'[seq + k].category = batch[k].category[1]
                     /\ expenses'[seq + k].description = batch[k].description
                     /\ expenses'[seq + k].date = DateToText(batch[k].date)
          ELSE /\ last'.exc
               /\ last'.ret = None
               /\ expenses' = expenses
               /\ seq' = seq]_vars

\* C27 witness: a batch of two has just been refused at its second row, after its
\* first row could be inserted, on a table that held a row already
C27_Witness ==
    /\ last.op = "add_batch_expenses"
    /\ last.exc
    /\ Len(last.arg) = 2
    /\ C27_Insertable(last.arg[1])
    /\ ~C27_Insertable(last.arg[2])
    /\ Cardinality(Stored(expenses)) = 1

\* C28: in whatever order the two initialize_database ran on the fresh database, the
\* expenses table has CHECK (amount >= 0), and no stored row has a negative amount.
C28_AmountCheck ==
    schema /= "absent" =>
        /\ schema = "config"
        /\ \A id \in Stored(expenses) : expenses[id].amount.num >= 0

\* C28 when DatabaseConfig.initialize_database ran first
C28_ConfigFirst ==
    schema = "config" => \A id \in Stored(expenses) : expenses[id].amount.num >= 0

\* C29: the id add_expense returns is larger than every id handed out before (seq,
\* the sqlite_sequence of the table, never decreases and bounds them all), so no id
\* comes back after its expense was deleted; update_expense and delete_expense bring
\* no new id, and a row keeps its id.
C29_FreshIds ==
    [][/\ seq' >= seq
       /\ \A id \in Stored(expenses') : id <= seq'
       /\ \A id \in Stored(expenses') \ Stored(expenses) :
             /\ id > seq
             /\ last'.op = "add_expense" /\ last'.ret = Some(id)
             /\ Stored(expenses') = Stored(expenses) \cup {id}
       /\ seq' /= seq
             => /\ last'.op = "add_expense" /\ last'.ret = Some(seq')
                /\ seq' \in Stored(expenses') \ Stored(expenses)]_vars

\* C29 witness: after the expense of id 1, the highest id at the time, was deleted,
\* add_expense has just returned id 2
C29_Witness ==
    /\ last.op = "add_expense"
    /\ last.ret = Some(2)
    /\ Stored(expenses) = {2}

\* C30: with a valid date, create_expense succeeds exactly for the amount strings
\* validate_amount reports valid, and then the stored amount is the amount
\* validate_amount computed.
C30_CreateAgreesWithValidate ==
    last.op = "create_expense" =>
        LET v == validate_amount(last.arg) IN
        /\ last.ret.success <=> v[1]
        /\ last.ret.success =>
              DecEq(expenses[last.ret.expense_id].amount, v[2][1])

\* C30, the acceptance alone: parse_amount followed by the "amount <= 0" test accepts
\* exactly the strings validate_amount accepts
C30_SameStrings ==
    last.op = "create_expense" => (last.ret.success <=> validate_amount(last.arg)[1])

\* C30 for the amounts that are not below the smallest float
C30_Representable ==
    (last.op = "create_expense" /\ PyFloat(Some(parse_amount(last.arg))) = DecNorm(parse_amount(last.arg)))
        => C30_CreateAgreesWithValidate

====
